---- MODULE Spec2Model ----
(***************************************************************************)
(* A model of the PHYS150 notebook grader: the Safety Gate (safecode.py),  *)
(* the Mock I/O Layer (core/mock_system.py), the signal-based executor     *)
(* (safecode_unix.py) and the Problem/Test orchestrator                    *)
(* (core/notebook_grader.py).                                              *)
(*                                                                         *)
(* Text is modelled as a sequence of chunks.  A chunk is a run of          *)
(* characters that no denylist entry splits ("import", " ", "os", "(");    *)
(* s1 in s2 of Python is Contains(s2, s1) on chunk sequences.              *)
(*                                                                         *)
(* The module holds these specifications over the same variables:          *)
(*   GateSpec       is_code_safe applied to every short fragment text      *)
(*   MockSpec       the print / input spies of one Test Case namespace     *)
(*   TestSpec       _run_single_test, statement by statement, with alarm   *)
(*   Spec           grade_notebook: validation, Problem and Test loops     *)
(*   VariableSpec   TestValidator.validate_variable_test                   *)
(*   NormalizeSpec  TestValidator.normalize_whitespace                     *)
(*   OutputSpec     TestValidator.validate_output_test                     *)
(*   NamespaceSpec  _create_test_namespace over repeated runs              *)
(*   PrepareSpec    _prepare_code: the fragment assembled from a cell      *)
(*   BatchSpec      grader.py main(): one grade_notebook per student       *)
(***************************************************************************)
EXTENDS Integers, Sequences, FiniteSets, TLC

VARIABLES
    \* ---- Safety Gate (GateSpec)
    cell_code,      \* the argument of is_code_safe
    verdict,        \* what is_code_safe returned, or Pending
    \* ---- Mock I/O Layer (MockSpec)
    input_overload, \* test_config.get("input_overload")
    inputs_iterator,\* number of items next() has consumed
    prompts_used,   \* test_ns.prompts_used
    printed_outputs,\* test_ns.printed_outputs
    stdout,         \* what redirect_stdout has captured
    calls,          \* the fragment's print / input calls so far, with results
    \* ---- one Test Case (TestSpec)
    t_pc,           \* position inside _run_single_test / _execute_code / run_cell
    t_idx,          \* test_idx
    test,           \* the Test Case's configuration
    program,        \* the fragment under test: its text and what running it does
    alarm,          \* "off" or "pending": the SIGALRM armed by signal.alarm
    exc,            \* the exception in flight, or NoExc
    cell_result,    \* run_cell's return value
    sys_stdout,     \* sys.stdout (the head), then the streams redirect_stdout saved
    cleanups,       \* calls of cleanup_matplotlib in the current run_cell
    trace,          \* the pipeline stages this Test Case went through
    t_results,      \* the results _run_single_test returned so far
    \* ---- grade_notebook (Spec)
    problems,       \* config.tester["problem"]
    nb,             \* the notebook passed to grade_notebook
    pc,             \* position inside grade_notebook
    prob_idx,       \* _grade_all_problems: loop index (1-based)
    current_code_cell_index,
    results,        \* _grade_all_problems: results
    total_score,    \* scaled by ScoreScale
    max_score,
    test_results,   \* _grade_all_problems: test_results
    test_idx,       \* _grade_single_problem: next test to run (1-based)
    passed,
    failed_tests,
    safety_violations,
    timeout_violations,
    prob_test_results, \* _grade_single_problem: test_results
    returned,       \* the tuple grade_notebook returned, or NotReturned
    \* ---- TestValidator (VariableSpec, OutputSpec, NormalizeSpec)
    v_test,         \* the Test Case's configuration
    v_actual,       \* what the fragment left: a variable's value or its output
    v_outcome,      \* <<>>, or what the validator did: "ok" / "AssertionError"
    \* ---- _create_test_namespace (NamespaceSpec)
    heap,           \* the list objects: object id -> sequence of elements
    test_inputs,    \* test["variables"]["data"] of each Test Case
    configured,     \* the value of test_inputs as configured
    test_ns,        \* test_ns.data of the running Test Case
    seeded,         \* the value test_ns.data had when each namespace was created
    ns_pc,          \* position in the Test Case loop
    ns_idx,         \* the running Test Case (1-based)
    \* ---- batch grading (BatchSpec)
    b_pc,           \* position in GradingSession._grade_students
    b_idx,          \* position of the student in userids (1-based)
    submissions,    \* what the submissions directory holds for each student
    userids_done,   \* userids_done
    user_grades,    \* self.user_grades
    unreadable_notebooks  \* self.unreadable_notebooks

gateVars == <<cell_code, verdict>>
mockVars == <<input_overload, inputs_iterator, prompts_used, printed_outputs,
              stdout, calls>>
testVars == <<t_pc, t_idx, test, program, alarm, exc, cell_result, sys_stdout, cleanups,
              trace, t_results>>
orchVars == <<problems, nb, pc, prob_idx, current_code_cell_index, results,
              total_score, max_score, test_results, test_idx, passed,
              failed_tests, safety_violations, timeout_violations,
              prob_test_results, returned>>
valVars == <<v_test, v_actual, v_outcome>>
nsVars == <<heap, test_inputs, configured, test_ns, seeded, ns_pc, ns_idx>>
batchVars == <<b_pc, b_idx, submissions, userids_done, user_grades,
               unreadable_notebooks>>
vars == <<gateVars, mockVars, testVars, orchVars, valVars, nsVars, batchVars>>

----------------------------------------------------------------------------
(* Bounds of the model *)

MaxCodeLen == 5     \* chunks in a fragment text that GateSpec enumerates

----------------------------------------------------------------------------
(* Text helpers *)

Range(s) == {s[i] : i \in 1..Len(s)}

Min(S) == CHOOSE x \in S : \A y \in S : x <= y

\* all sequences over S of length 0..n
SeqsUpTo(S, n) == UNION {[1..k -> S] : k \in 0..n}

\* Python: pat in text
Contains(text, pat) ==
    \E i \in 0..(Len(text) - Len(pat)) :
        \A j \in 1..Len(pat) : text[i + j] = pat[j]

IsSpace(c) == c \in {" ", "\n"}

\* Python: text.strip()
Strip(text) ==
    LET idx == {i \in 1..Len(text) : ~IsSpace(text[i])}
    IN  IF idx = {} THEN <<>>
        ELSE LET lo == Min(idx)
                 hi == CHOOSE i \in idx : \A j \in idx : j <= i
             IN  SubSeq(text, lo, hi)

----------------------------------------------------------------------------
(* Safety Gate: safecode.py *)

banned_imports ==
    << "os", "sys", "subprocess", "socket", "shutil", "pathlib", "requests",
       "multiprocessing", "threading", "ctypes", "pickle" >>

banned_patterns ==
    << <<"open", "(">>, <<"eval", "(">>, <<"exec", "(">>, <<"__import__">>,
       <<"compile", "(">>, <<"globals", "(">>, <<"locals", "(">>,
       <<"setattr", "(">>, <<"delattr", "(">>, <<"getattr", "(">>,
       <<"exit", "(">>, <<"quit", "(">>, <<"system", "(">>, <<"fork", "(">>,
       <<"kill", "(">>, <<"remove", "(">>, <<"rmdir", "(">>, <<"unlink", "(">>,
       <<"chmod", "(">>, <<"chown", "(">>, <<"popen", "(">>, <<"walk", "(">>,
       <<"makedirs", "(">>, <<"mkdir", "(">>, <<"rmtree", "(">>,
       <<"copy", "(">>, <<"move", "(">>, <<"rename", "(">>,
       <<"socket", ".">>, <<"threading", ".">>, <<"multiprocessing", ".">> >>

\* ImportHit with the "from X import" form left unscreened
ImportHit_NoFromForm(code, imp) == Contains(code, <<"import", " ", imp>>)

\* f"import {imp}" in cell_code or f"from {imp} import" in cell_code
ImportHit(code, imp) ==
    \/ Contains(code, <<"import", " ", imp>>)
    \/ Contains(code, <<"from", " ", imp, " ", "import">>)

Safe == [safe |-> TRUE, reason |-> <<>>]

\* is_code_safe(cell_code): the first banned import in list order, else the
\* first banned pattern in list order, else (True, "")
is_code_safe(code) ==
    LET imps == {i \in 1..Len(banned_imports) : ImportHit(code, banned_imports[i])}
        pats == {i \in 1..Len(banned_patterns) : Contains(code, banned_patterns[i])}
    IN  IF imps # {}
        THEN [safe |-> FALSE,
              reason |-> <<"Banned import detected: ", banned_imports[Min(imps)]>>]
        ELSE IF pats # {}
        THEN [safe |-> FALSE,
              reason |-> <<"Banned code pattern detected: ">> \o banned_patterns[Min(pats)]]
        ELSE Safe

----------------------------------------------------------------------------
(* Mock I/O Layer: core/mock_system.py *)

MaxCalls == 3       \* print / input calls one fragment makes in MockSpec
MaxItems == 2       \* items in a list-valued input overload

IntVal(n) == [t |-> "int", v |-> n]
StrVal(s) == [t |-> "str", v |-> s]
BoolVal(b) == [t |-> "bool", v |-> b]

\* Python: str(x), as text
Str(x) ==
    CASE x.t = "int" -> <<ToString(x.v)>>
      [] x.t = "float" -> <<ToString(x.v) \o ".0">>
      [] x.t = "bool" -> IF x.v THEN <<"True">> ELSE <<"False">>
      [] x.t = "str" -> x.v

\* values a configuration puts in an input overload
OverloadValues == {IntVal(10), IntVal(20)}

NoOverload == [kind |-> "none"]
SingleOverload(x) == [kind |-> "single", value |-> x]
ListOverload(xs) == [kind |-> "list", items |-> xs]

Overloads ==
    {NoOverload}
    \cup {SingleOverload(x) : x \in OverloadValues \cup {StrVal(<<"yes">>)}}
    \cup {ListOverload(xs) : xs \in SeqsUpTo(OverloadValues, MaxItems)}

DefaultSep == <<" ">>
DefaultEnd == <<"\n">>

\* the print calls a fragment makes: positional arguments, sep, end
PrintCalls ==
    { [args |-> <<StrVal(<<"Hello">>), StrVal(<<"World">>)>>,
       sep |-> DefaultSep, end |-> DefaultEnd],
      [args |-> <<StrVal(<<"line", "\n">>)>>,
       sep |-> DefaultSep, end |-> DefaultEnd],
      [args |-> <<IntVal(10), BoolVal(TRUE)>>,
       sep |-> <<",">>, end |-> DefaultEnd],
      [args |-> <<StrVal(<<"Hello">>), StrVal(<<"World">>)>>,
       sep |-> DefaultSep, end |-> <<>>],
      [args |-> <<>>, sep |-> DefaultSep, end |-> DefaultEnd],
      [args |-> <<StrVal(<<"Hello">>)>>,
       sep |-> DefaultSep, end |-> <<"\n", "\n">>] }
Prompts == {<<"x? ">>}

RECURSIVE Join(_, _)
\* Python: sep.join(parts)
Join(parts, sep) ==
    IF Len(parts) = 0 THEN <<>>
    ELSE IF Len(parts) = 1 THEN parts[1]
    ELSE parts[1] \o sep \o Join(Tail(parts), sep)

\* the text print(*args, sep=sep, end=end) writes
PrintText(args, sep, end) ==
    Join([i \in 1..Len(args) |-> Str(args[i])], sep) \o end

RECURSIVE RStripNewlines(_)
\* StripOneNewline removing every trailing newline (rstrip)
RStripNewlines(message) ==
    IF Len(message) > 0 /\ message[Len(message)] = "\n"
    THEN RStripNewlines(SubSeq(message, 1, Len(message) - 1))
    ELSE message

\* if message.endswith('\n'): message = message[:-1]
StripOneNewline(message) ==
    IF Len(message) > 0 /\ message[Len(message)] = "\n"
    THEN SubSeq(message, 1, Len(message) - 1)
    ELSE message

\* NextInput that hands out the last item again once the list is used up
NextInput_RepeatLast(overload, consumed) ==
    IF overload.kind = "list"
    THEN IF overload.items = <<>> THEN <<>>
         ELSE IF consumed < Len(overload.items)
         THEN Str(overload.items[consumed + 1])
         ELSE Str(overload.items[Len(overload.items)])
    ELSE Str(overload.value)

\* what the input spy returns: str(next(inputs_iterator)), "" on
\* StopIteration; str(input_value) for a non-list overload
NextInput(overload, consumed) ==
    IF overload.kind = "list"
    THEN IF consumed < Len(overload.items)
         THEN Str(overload.items[consumed + 1])
         ELSE <<>>
    ELSE Str(overload.value)

----------------------------------------------------------------------------
(* Values of the variables a specification does not use *)

NoExc == [type |-> <<>>, msg |-> <<>>, is_exception |-> FALSE]
NotReturned == [kind |-> "none"]
\* grade_notebook left by an exception instead of a return
Raised(e) == [kind |-> "raised", exc |-> e]

GateIdle == cell_code = <<>> /\ verdict = <<>>

MockIdle ==
    /\ input_overload = NoOverload
    /\ inputs_iterator = 0
    /\ prompts_used = <<>>
    /\ printed_outputs = <<>>
    /\ stdout = <<>>
    /\ calls = <<>>

TestIdle ==
    /\ t_pc = "idle"
    /\ t_idx = 0
    /\ test = [type |-> "variable"]
    /\ program = [code |-> <<>>, runs |-> "finish", raises |-> NoExc]
    /\ alarm = "off"
    /\ exc = NoExc
    /\ cell_result = "None"
    /\ sys_stdout = <<"terminal">>
    /\ cleanups = 0
    /\ trace = <<>>
    /\ t_results = <<>>

OrchIdle ==
    /\ problems = <<>>
    /\ nb = <<>>
    /\ pc = "idle"
    /\ prob_idx = 0
    /\ current_code_cell_index = 0
    /\ results = <<>>
    /\ total_score = 0
    /\ max_score = 0
    /\ test_results = <<>>
    /\ test_idx = 0
    /\ passed = 0
    /\ failed_tests = <<>>
    /\ safety_violations = 0
    /\ timeout_violations = 0
    /\ prob_test_results = <<>>
    /\ returned = NotReturned

ValIdle == v_test = [type |-> "none"] /\ v_actual = <<>> /\ v_outcome = <<>>

NsIdle ==
    /\ heap = <<>>
    /\ test_inputs = <<>>
    /\ configured = <<>>
    /\ test_ns = 0
    /\ seeded = <<>>
    /\ ns_pc = "idle"
    /\ ns_idx = 0

BatchIdle ==
    /\ b_pc = "idle"
    /\ b_idx = 0
    /\ submissions = <<>>
    /\ userids_done = <<>>
    /\ user_grades = <<>>
    /\ unreadable_notebooks = <<>>

----------------------------------------------------------------------------
(* GateSpec: is_code_safe on every fragment text of at most MaxCodeLen     *)
(* chunks over GateAlphabet                                                *)

GateAlphabet == {"import", "from", " ", "os", "open", "(", "x"}

GateInit ==
    /\ cell_code \in SeqsUpTo(GateAlphabet, MaxCodeLen)
    /\ verdict = <<>>
    /\ MockIdle /\ TestIdle /\ OrchIdle /\ ValIdle /\ NsIdle /\ BatchIdle

\* safe, reason = is_code_safe(code_to_run)
IsCodeSafeCall ==
    /\ verdict' = <<is_code_safe(cell_code)>>
    /\ UNCHANGED <<cell_code, mockVars, testVars, orchVars, valVars, nsVars, batchVars>>

GateNext == IsCodeSafeCall

GateSpec == GateInit /\ [][GateNext]_vars

----------------------------------------------------------------------------
(* MockSpec: the spies MockManager.setup_mocks installs in one namespace,  *)
(* called by the fragment at most MaxCalls times                           *)

\* the state setup_mocks leaves: IOSpy.__init__ and the two spies
MockInit ==
    /\ input_overload \in Overloads
    /\ inputs_iterator = 0
    /\ prompts_used = <<>>
    /\ printed_outputs = <<>>
    /\ stdout = <<>>
    /\ calls = <<>>
    /\ GateIdle /\ TestIdle /\ OrchIdle /\ ValIdle /\ NsIdle /\ BatchIdle

\* spy_print(*args, **kwargs)
SpyPrint ==
    /\ Len(calls) < MaxCalls
    /\ \E c \in PrintCalls :
        /\ printed_outputs' =
               Append(printed_outputs,
                      StripOneNewline(PrintText(c.args, c.sep, c.end)))
        /\ stdout' = stdout \o PrintText(c.args, DefaultSep, DefaultEnd)
        /\ calls' = Append(calls, [fn |-> "print", args |-> c.args,
                                    sep |-> c.sep, end |-> c.end])
    /\ UNCHANGED <<input_overload, inputs_iterator, prompts_used>>
    /\ UNCHANGED <<gateVars, testVars, orchVars, valVars, nsVars, batchVars>>

\* spy_input_from_list(prompt) / spy_input_single(prompt); test_ns.input is
\* installed only when the Test Case has an input overload
SpyInput ==
    /\ Len(calls) < MaxCalls
    /\ input_overload.kind # "none"
    /\ \E prompt \in Prompts :
        /\ prompts_used' = Append(prompts_used, prompt)
        /\ stdout' = stdout \o prompt
        /\ calls' = Append(calls, [fn |-> "input", prompt |-> prompt,
                                    ret |-> NextInput(input_overload, inputs_iterator)])
    /\ inputs_iterator' =
           IF input_overload.kind = "list"
              /\ inputs_iterator < Len(input_overload.items)
           THEN inputs_iterator + 1
           ELSE inputs_iterator
    /\ UNCHANGED <<input_overload, printed_outputs>>
    /\ UNCHANGED <<gateVars, testVars, orchVars, valVars, nsVars, batchVars>>

MockNext == SpyPrint \/ SpyInput

MockSpec == MockInit /\ [][MockNext]_vars

----------------------------------------------------------------------------
(* Fragments and Test Cases *)

MaxRuns == 2        \* Test Cases TestSpec runs one after the other

ZeroDivisionError ==
    [type |-> <<"ZeroDivisionError">>, msg |-> <<"division by zero">>,
     is_exception |-> TRUE]
\* SystemExit derives from BaseException, not from Exception
SystemExit == [type |-> <<"SystemExit">>, msg |-> <<>>, is_exception |-> FALSE]
\* class TimeoutException(Exception); raised by timeout_handler
TimeoutException ==
    [type |-> <<"Timeout", "Exception">>, msg |-> <<"Code execution timed out">>,
     is_exception |-> TRUE]
\* raise Exception("__DEADLOOP__")
DeadloopException ==
    [type |-> <<"Exception">>, msg |-> <<"__DEADLOOP__">>, is_exception |-> TRUE]
\* raise ValueError(f"Unknown test type: {test_type}")
UnknownTypeError ==
    [type |-> <<"ValueError">>, msg |-> <<"Unknown test type">>,
     is_exception |-> TRUE]

\* raise ValueError('blocked') in a fragment
BlockedWordError ==
    [type |-> <<"ValueError">>, msg |-> <<"blocked">>, is_exception |-> TRUE]

\* Fragments a Test Case assembles (code_to_run), each with what exec() of it
\* does: "finish" returns, "raise" raises `raises`, "loop" never returns,
\* "loop_catch" never returns and swallows every Exception in its loop body.
Programs ==
    { [code |-> <<"x", " ", "=", " ", "5">>, runs |-> "finish", raises |-> NoExc],
      [code |-> <<"import", " ", "os">>, runs |-> "finish", raises |-> NoExc],
      [code |-> <<"f", " ", "=", " ", "open", "(", "name", ")">>,
       runs |-> "finish", raises |-> NoExc],
      [code |-> <<"while", " ", "True", ":", " ", "pass">>,
       runs |-> "loop", raises |-> NoExc],
      [code |-> <<"while", " ", "True", ":", "\n", " ", "try", ":", " ", "pass",
                  "\n", " ", "except", " ", "Exception", ":", " ", "pass">>,
       runs |-> "loop_catch", raises |-> NoExc],
      [code |-> <<"x", " ", "=", " ", "1", "/", "0">>,
       runs |-> "raise", raises |-> ZeroDivisionError],
      [code |-> <<"raise", " ", "SystemExit">>,
       runs |-> "raise", raises |-> SystemExit],
      [code |-> <<"raise", " ", "Exception", "(", "'__DEADLOOP__'", ")">>,
       runs |-> "raise", raises |-> DeadloopException],
      [code |-> <<"raise", " ", "ValueError", "(", "'blocked'", ")">>,
       runs |-> "raise", raises |-> BlockedWordError] }

\* test.get("type", "unknown")
TestTypes == {"variable", "output", "unknown"}
Tests == [type : TestTypes]

\* the failure_message strings of _run_single_test, by their parts:
\* f"Test {test_idx} {kind} [({err_type})] on input ({input_str})[: {detail}]"
BlockedMessage(idx, reason) ==
    [test |-> idx, kind |-> "blocked", err_type |-> <<>>, detail |-> reason]
TimeoutMessage(idx) ==
    [test |-> idx, kind |-> "timeout", err_type |-> <<>>, detail |-> <<>>]
ErrorMessage(idx, e) ==
    [test |-> idx, kind |-> "error", err_type |-> e.type, detail |-> e.msg]
FailedMessage(idx) ==
    [test |-> idx, kind |-> "failed", err_type |-> <<>>,
     detail |-> <<"AssertionError text">>]
\* the empty failure_message of a passed test
NoMessage == [test |-> 0, kind |-> "", err_type |-> <<>>, detail |-> <<>>]

\* the message as text
MessageText(m) ==
    IF m = NoMessage THEN <<>>
    ELSE <<"Test ", ToString(m.test), " ", m.kind>>
         \o (IF m.err_type # <<>> THEN <<" (">> \o m.err_type \o <<")">> ELSE <<>>)
         \o <<" on input (", ")">>
         \o (IF m.detail # <<>> THEN <<": ">> \o m.detail ELSE <<>>)

\* Python: text.lower(), chunk by chunk
LowerChunk(c) ==
    CASE c = "Timeout" -> "timeout"
      [] c = "Exception" -> "exception"
      [] c = "Test " -> "test "
      [] c = "Area:" -> "area:"
      [] c = "Name:" -> "name:"
      [] c = "Bob" -> "bob"
      [] c = "B" -> "b"
      [] OTHER -> c
Lower(text) == [i \in 1..Len(text) |-> LowerChunk(text[i])]

Passed == [passed |-> TRUE, failure_message |-> NoMessage]

\* a failing outcome returned with "passed": True
Failed_AsPassed(message) == [passed |-> TRUE, failure_message |-> message]

\* {"passed": False, "failure_message": ...}
Failed(message) == [passed |-> FALSE, failure_message |-> message]

----------------------------------------------------------------------------
(* TestSpec: _run_single_test with _execute_code and the signal-based      *)
(* run_cell, one statement group per action                                *)

TestInit ==
    /\ t_pc = "start"
    /\ t_idx = 1
    /\ test \in Tests
    /\ program \in Programs
    /\ alarm = "off"
    /\ exc = NoExc
    /\ cell_result = "None"
    /\ sys_stdout = <<"terminal">>
    /\ cleanups = 0
    /\ trace = <<>>
    /\ t_results = <<>>
    /\ GateIdle /\ MockIdle /\ OrchIdle /\ ValIdle /\ NsIdle /\ BatchIdle

\* the result _run_single_test returns, with what the Test Case went through
Record(result, stages) ==
    Append(t_results, [test_idx |-> t_idx, program |-> program,
                       result |-> result, trace |-> stages])

\* GateBranch that lets a rejected fragment through to the executor
GateBranch_RunAnyway(safe) == "execute"

\* if not safe: return {...}
GateBranch(safe) == IF ~safe THEN "returned" ELSE "execute"

\* _run_single_test up to the safety check
CheckSafety ==
    /\ t_pc = "start"
    /\ trace' = Append(trace, "gate")
    /\ LET v == is_code_safe(program.code)
       IN  /\ t_pc' = GateBranch(v.safe)
           /\ t_results' = IF t_pc' = "returned"
                            THEN Record(Failed(BlockedMessage(t_idx, v.reason)), trace')
                            ELSE t_results
    /\ UNCHANGED <<t_idx, test, program, alarm, exc, cell_result, sys_stdout>>
    /\ UNCHANGED cleanups
    /\ UNCHANGED <<gateVars, mockVars, orchVars, valVars, nsVars, batchVars>>

\* a cleanup_matplotlib that is never counted as run
cleanup_matplotlib_Skipped(n) == n

\* cleanup_matplotlib(test_ns.__dict__) has run once more
cleanup_matplotlib(n) == n + 1

\* f = io.StringIO(): the capture buffer of Test Case idx
StringIO(idx) == "f" \o ToString(idx)

\* with redirect_stdout(f): on entry sys.stdout is saved and replaced by f
redirect_stdout_enter(streams, f) == <<f>> \o streams

\* leaving the with block without putting the saved stream back
redirect_stdout_exit_KeepCapture(streams) == streams

\* leaving the with block, by return or by exception: the saved stream is
\* put back
redirect_stdout_exit(streams) == Tail(streams)

\* _execute_code enters redirect_stdout; run_cell installs the handler and
\* arms the alarm, then calls exec
ExecuteCodeEnter ==
    /\ t_pc = "execute"
    /\ sys_stdout' = redirect_stdout_enter(sys_stdout, StringIO(t_idx))
    /\ alarm' = "pending"
    /\ t_pc' = "exec"
    /\ trace' = Append(trace, "exec")
    /\ UNCHANGED <<t_idx, test, program, exc, cell_result, t_results>>
    /\ cleanups' = 0
    /\ UNCHANGED <<gateVars, mockVars, orchVars, valVars, nsVars, batchVars>>

\* exec(cell_code, ...) returns
FragmentFinishes ==
    /\ t_pc = "exec"
    /\ program.runs = "finish"
    /\ t_pc' = "finally"
    /\ trace' = Append(trace, "finished")
    /\ UNCHANGED <<t_idx, test, program, alarm, exc, cell_result, sys_stdout,
                   t_results>>
    /\ UNCHANGED cleanups
    /\ UNCHANGED <<gateVars, mockVars, orchVars, valVars, nsVars, batchVars>>

\* exec(cell_code, ...) raises: `except Exception` takes an Exception,
\* anything else goes straight to the finally clause
FragmentRaises ==
    /\ t_pc = "exec"
    /\ program.runs = "raise"
    /\ exc' = program.raises
    /\ t_pc' = IF program.raises.is_exception THEN "except_error" ELSE "finally"
    /\ trace' = Append(trace, "raised")
    /\ UNCHANGED <<t_idx, test, program, alarm, cell_result, sys_stdout,
                   t_results>>
    /\ UNCHANGED cleanups
    /\ UNCHANGED <<gateVars, mockVars, orchVars, valVars, nsVars, batchVars>>

\* SIGALRM is delivered: timeout_handler raises TimeoutException at the
\* statement that is running.  The alarm is one-shot.
AlarmFires ==
    /\ alarm = "pending"
    /\ t_pc \in {"exec", "except_error", "finally"}
    /\ alarm' = "off"
    /\ IF t_pc = "exec" /\ program.runs = "loop_catch"
       THEN \* the fragment's own `except Exception` swallows it
            /\ trace' = Append(trace, "swallowed")
            /\ UNCHANGED <<t_pc, exc>>
       ELSE /\ exc' = TimeoutException
            /\ trace' = Append(trace, "timeout")
            /\ t_pc' = CASE t_pc = "exec" -> "except_timeout"
                          [] t_pc = "except_error" -> "finally"
                          [] t_pc = "finally" -> "run_cell_exit"
    /\ UNCHANGED <<t_idx, test, program, cell_result, sys_stdout, t_results>>
    /\ UNCHANGED cleanups
    /\ UNCHANGED <<gateVars, mockVars, orchVars, valVars, nsVars, batchVars>>

\* except TimeoutException: cleanup_matplotlib(...); return "__DEADLOOP__"
ExceptTimeout ==
    /\ t_pc = "except_timeout"
    /\ cell_result' = "__DEADLOOP__"
    /\ exc' = NoExc
    /\ t_pc' = "finally"
    /\ UNCHANGED <<t_idx, test, program, alarm, sys_stdout, trace, t_results>>
    /\ cleanups' = cleanup_matplotlib(cleanups)
    /\ UNCHANGED <<gateVars, mockVars, orchVars, valVars, nsVars, batchVars>>

\* except Exception as e: cleanup_matplotlib(...); raise e
ExceptError ==
    /\ t_pc = "except_error"
    /\ t_pc' = "finally"
    /\ UNCHANGED <<t_idx, test, program, alarm, exc, cell_result, sys_stdout,
                   trace, t_results>>
    /\ cleanups' = cleanup_matplotlib(cleanups)
    /\ UNCHANGED <<gateVars, mockVars, orchVars, valVars, nsVars, batchVars>>

\* finally: signal.alarm(0); cleanup_matplotlib(...)
Finally ==
    /\ t_pc = "finally"
    /\ alarm' = "off"
    /\ t_pc' = "run_cell_exit"
    /\ UNCHANGED <<t_idx, test, program, exc, cell_result, sys_stdout, trace,
                   t_results>>
    /\ cleanups' = cleanup_matplotlib(cleanups)
    /\ UNCHANGED <<gateVars, mockVars, orchVars, valVars, nsVars, batchVars>>

\* redirect_stdout exits; if cell_result == "__DEADLOOP__": raise Exception(...)
ExecuteCodeExit ==
    /\ t_pc = "run_cell_exit"
    /\ sys_stdout' = redirect_stdout_exit(sys_stdout)
    /\ exc' = IF exc = NoExc /\ cell_result = "__DEADLOOP__"
              THEN DeadloopException ELSE exc
    /\ t_pc' = "execute_code_exit"
    /\ UNCHANGED <<t_idx, test, program, alarm, cell_result, trace, t_results>>
    /\ UNCHANGED cleanups
    /\ UNCHANGED <<gateVars, mockVars, orchVars, valVars, nsVars, batchVars>>

\* what _run_single_test makes of an exception out of _execute_code:
\* `except Exception` does not take a BaseException
ExecFailure(idx, e) ==
    IF e.msg = <<"__DEADLOOP__">> THEN Failed(TimeoutMessage(idx))
    ELSE Failed(ErrorMessage(idx, e))

\* try: cell_output = self._execute_code(...) except Exception as e: ...
HandleExecResult ==
    /\ t_pc = "execute_code_exit"
    /\ IF exc = NoExc
       THEN t_pc' = "validate" /\ UNCHANGED <<exc, t_results>>
       ELSE IF exc.is_exception
       THEN /\ t_pc' = "returned"
            /\ t_results' = Record(ExecFailure(t_idx, exc), trace)
            /\ exc' = NoExc
       ELSE t_pc' = "escaped" /\ UNCHANGED <<exc, t_results>>
    /\ UNCHANGED <<t_idx, test, program, alarm, cell_result, sys_stdout, trace>>
    /\ UNCHANGED cleanups
    /\ UNCHANGED <<gateVars, mockVars, orchVars, valVars, nsVars, batchVars>>

\* what TestRunner.run_test can do for a Test Case: return, raise
\* AssertionError (a validator's check failed), raise ValueError (unknown type)
RunTestOutcomes(t) ==
    IF t.type \in {"variable", "output"}
    THEN {"ok", "AssertionError"}
    ELSE {"ValueError"}

\* try: self.test_runner.run_test(...) except AssertionError as e: ...
RunTest ==
    /\ t_pc = "validate"
    /\ trace' = Append(trace, "validate")
    /\ \E o \in RunTestOutcomes(test) :
        CASE o = "ok" ->
               /\ t_results' = Record(Passed, trace')
               /\ t_pc' = "returned" /\ UNCHANGED exc
          [] o = "AssertionError" ->
               /\ t_results' = Record(Failed(FailedMessage(t_idx)), trace')
               /\ t_pc' = "returned" /\ UNCHANGED exc
          [] o = "ValueError" ->
               /\ exc' = UnknownTypeError
               /\ t_pc' = "escaped" /\ UNCHANGED t_results
    /\ UNCHANGED <<t_idx, test, program, alarm, cell_result, sys_stdout>>
    /\ UNCHANGED cleanups
    /\ UNCHANGED <<gateVars, mockVars, orchVars, valVars, nsVars, batchVars>>

\* for test_idx, test in enumerate(tests, 1): the next Test Case starts with
\* a fresh namespace
NextTest ==
    /\ t_pc = "returned"
    /\ t_idx < MaxRuns
    /\ t_idx' = t_idx + 1
    /\ test' \in Tests
    /\ program' \in Programs
    /\ t_pc' = "start"
    /\ trace' = <<>>
    /\ cell_result' = "None"
    /\ UNCHANGED <<alarm, exc, sys_stdout, t_results>>
    /\ UNCHANGED cleanups
    /\ UNCHANGED <<gateVars, mockVars, orchVars, valVars, nsVars, batchVars>>

TestNext ==
    \/ CheckSafety
    \/ ExecuteCodeEnter
    \/ FragmentFinishes
    \/ FragmentRaises
    \/ AlarmFires
    \/ ExceptTimeout
    \/ ExceptError
    \/ Finally
    \/ ExecuteCodeExit
    \/ HandleExecResult
    \/ RunTest
    \/ NextTest

TestSpec == TestInit /\ [][TestNext]_vars

----------------------------------------------------------------------------
(* Configurations and notebooks *)

MaxProblems == 2    \* Problems in a configuration
MaxCells == 2       \* cells in a notebook

\* the Problems a configuration is built from; the second sets no "pts"
ProblemShapes ==
    { [next_code_cell |-> 1, tests |-> <<[type |-> "output"]>>],
      [next_code_cell |-> 0, pts |-> 3, tests |-> <<>>],
      [next_code_cell |-> 2, pts |-> 4,
       tests |-> <<[type |-> "variable"], [type |-> "output"]>>],
      [next_code_cell |-> 1, pts |-> 2, tests |-> <<[type |-> "unknown"]>>] }

Configs == SeqsUpTo(ProblemShapes, MaxProblems)

MarkdownCell == [cell_type |-> "markdown", source |-> <<"# Problem">>]
EmptyCodeCell == [cell_type |-> "code", source |-> <<" ", "\n">>]
\* a student's code cell holds the text of one of Programs
CodeCells == {[cell_type |-> "code", source |-> p.code] : p \in Programs}

Notebooks == SeqsUpTo({MarkdownCell, EmptyCodeCell} \cup CodeCells, MaxCells)

\* problem.get("pts", 0)
Pts_NoDefault(problem) == IF "pts" \in DOMAIN problem THEN problem.pts ELSE 0

\* problem.get("pts", 1)
Pts(problem) == IF "pts" \in DOMAIN problem THEN problem.pts ELSE 1

RECURSIVE SumOver(_, _)
\* Python: sum(f(x) for x in seq), f given as the sequence of its values
SumOver(seq, n) == IF n = 0 THEN 0 ELSE seq[n] + SumOver(seq, n - 1)
Sum(seq) == SumOver(seq, Len(seq))

RECURSIVE Factorial(_)
Factorial(n) == IF n <= 1 THEN 1 ELSE n * Factorial(n - 1)

\* scores are kept as integers: score * ScoreScale, where every number of
\* tests of a Problem divides ScoreScale
ScoreScale ==
    Factorial(CHOOSE m \in {Len(p.tests) : p \in ProblemShapes} :
                 \A p \in ProblemShapes : Len(p.tests) <= m)

----------------------------------------------------------------------------
(* grade_notebook: core/notebook_grader.py *)

\* sum(p.get('next_code_cell', 0) for p in self.config.tester['problem'])
expected_code_cells(ps) == Sum([i \in 1..Len(ps) |-> ps[i].next_code_cell])

\* sum(1 for cell in nb.cells if cell.cell_type == 'code')
actual_code_cells(n) == Cardinality({i \in 1..Len(n) : n[i].cell_type = "code"})

IsNonEmptyCode(cell) == cell.cell_type = "code" /\ Strip(cell.source) # <<>>

\* sum(1 for cell in nb.cells if cell.cell_type == 'code' and cell.source.strip())
non_empty_code_cells(n) == Cardinality({i \in 1..Len(n) : IsNonEmptyCode(n[i])})

\* _validate_cell_count returns the mismatch result (not None)
CellCountMismatch(ps, n) ==
    /\ actual_code_cells(n) # expected_code_cells(ps)
    /\ non_empty_code_cells(n) # expected_code_cells(ps)

cell_mismatch_result(ps, n) ==
    [cell_index |-> "ALL", passed |-> 0, total |-> 1, score |-> 0, pts |-> 0,
     failed_tests |-> <<[kind |-> "Cell count mismatch",
                         expected |-> expected_code_cells(ps),
                         found |-> actual_code_cells(n)]>>,
     safety_violations |-> 0, timeout_violations |-> 0,
     cell_mismatch |-> TRUE,
     expected_cells |-> expected_code_cells(ps),
     actual_cells |-> actual_code_cells(n)]

\* _get_code_cell_by_index counting every code cell, empty ones too
CodeCellPosition_CountEmpty(n, target_index) ==
    LET hits == {i \in 1..Len(n) :
                    /\ n[i].cell_type = "code"
                    /\ Cardinality({j \in 1..i : n[j].cell_type = "code"}) = target_index}
    IN  IF hits = {} THEN 0 ELSE Min(hits)

\* _get_code_cell_by_index: the position in nb.cells of the target_index-th
\* non-empty code cell, 0 for IndexError
CodeCellPosition(n, target_index) ==
    LET hits == {i \in 1..Len(n) :
                    /\ IsNonEmptyCode(n[i])
                    /\ Cardinality({j \in 1..i : IsNonEmptyCode(n[j])}) = target_index}
    IN  IF hits = {} THEN 0 ELSE Min(hits)

RECURSIVE SplitLinesFrom(_, _, _)
SplitLinesFrom(text, i, cur) ==
    IF i > Len(text) THEN (IF cur = <<>> THEN <<>> ELSE <<cur>>)
    ELSE IF text[i] = "\n" THEN <<cur>> \o SplitLinesFrom(text, i + 1, <<>>)
    ELSE SplitLinesFrom(text, i + 1, Append(cur, text[i]))

\* Python: text.splitlines()
SplitLines(text) == SplitLinesFrom(text, 1, <<>>)

\* Python: [x for x in seq if keep(x)], keep given as a set of positions
RECURSIVE Filter(_, _, _)
Filter(seq, keep, i) ==
    IF i > Len(seq) THEN <<>>
    ELSE (IF i \in keep THEN <<seq[i]>> ELSE <<>>) \o Filter(seq, keep, i + 1)

\* Python: seq[n:]
DropFirst(seq, n) == SubSeq(seq, Min({n, Len(seq)}) + 1, Len(seq))

\* remove_input_lines that removes nothing
remove_input_lines_KeepAll(code) == code

\* remove_input_lines (safecode.py)
remove_input_lines(code) ==
    LET lines == SplitLines(code)
    IN  Join(Filter(lines, {i \in DOMAIN lines : ~Contains(lines[i], <<"input", "(">>)}, 1),
             <<"\n">>)

\* sanitize_student_code is imported from safecode, which does not define
\* it; the data flow "trims blank lines, applies line offset, prepends prefix
\* code, strips input-reading lines" has no further step: the text is kept
sanitize_student_code(code) == code

\* _add_prefix_code: the Problem's prefix code, then the Test Case's
add_prefix_code(code, t, problem) ==
    LET all_prefix_lines ==
            (IF "prefix_code" \in DOMAIN problem THEN <<problem.prefix_code>> ELSE <<>>)
            \o (IF "prefix_code" \in DOMAIN t THEN <<t.prefix_code>> ELSE <<>>)
    IN  IF all_prefix_lines # <<>>
        THEN Join(all_prefix_lines, <<"\n">>) \o <<"\n">> \o code
        ELSE code

\* _prepare_code
prepare_code(cell, t, problem) ==
    LET line_offset == IF "line_offset" \in DOMAIN problem THEN problem.line_offset ELSE 0
        cell_lines == SplitLines(cell.source)
        non_blank_lines ==
            Filter(cell_lines, {i \in DOMAIN cell_lines : Strip(cell_lines[i]) # <<>>}, 1)
        joined == Join(DropFirst(non_blank_lines, line_offset), <<"\n">>)
        prefixed == add_prefix_code(joined, t, problem)
        variables == IF "variables" \in DOMAIN t THEN t.variables ELSE <<>>
        stripped == IF /\ DOMAIN variables # {}
                       /\ "input_overload" \notin DOMAIN t
                    THEN remove_input_lines(prefixed) ELSE prefixed
    IN  sanitize_student_code(stripped)

\* what exec() does with the prepared text
ProgramOf(code) == CHOOSE p \in Programs : p.code = code

\* str(IndexError(f"Code cell number {target_index} not found."))
NotFoundMessage(target_index) ==
    [test |-> 0, kind |-> "cell not found", err_type |-> <<>>,
     detail |-> <<"Code cell number ", ToString(target_index)>>]

\* _create_problem_result
create_problem_result(cell_index, n_passed, total, score, pts, failed, safety, timeouts) ==
    [cell_index |-> cell_index, passed |-> n_passed, total |-> total,
     score |-> score, pts |-> pts, failed_tests |-> failed,
     safety_violations |-> safety, timeout_violations |-> timeouts]

\* ProblemScore without the division by the number of tests
ProblemScore_NoDivision(n_passed, n_tests, pts) ==
    IF n_tests # 0 THEN n_passed * pts * ScoreScale ELSE 0

\* score = (passed / len(tests) * pts) if tests else 0, times ScoreScale
ProblemScore(n_passed, n_tests, pts) ==
    IF n_tests # 0 THEN (n_passed * pts * ScoreScale) \div n_tests ELSE 0

\* key = f"prob{prob_idx}_test{test_idx}"
Key(p, t) == <<p, t>>

\* dict.update
Update(d, e) ==
    [k \in DOMAIN d \cup DOMAIN e |-> IF k \in DOMAIN e THEN e[k] ELSE d[k]]

\* "blocked" in failure_message.lower(), "timeout" in failure_message.lower()
Mentions(message, word) == Contains(Lower(MessageText(message)), <<word>>)

\* what _execute_code does with a fragment: return the captured output,
\* raise, or never come back
ExecReturned == [kind |-> "returned", exc |-> NoExc]
ExecRaised(e) == [kind |-> "raised", exc |-> e]
ExecHung == [kind |-> "hung", exc |-> NoExc]

\* The outcomes of _execute_code for a fragment, over every moment the alarm
\* can fire (TestSpec takes the same steps one by one)
ExecuteCodeOutcomes(prog) ==
    CASE prog.runs = "finish" ->
           {ExecReturned, ExecRaised(DeadloopException), ExecRaised(TimeoutException)}
      [] prog.runs = "raise" ->
           {ExecRaised(prog.raises), ExecRaised(DeadloopException),
            ExecRaised(TimeoutException)}
      [] prog.runs = "loop" -> {ExecRaised(DeadloopException)}
      [] prog.runs = "loop_catch" -> {ExecHung}

TestResult(r) == [kind |-> "result", result |-> r, exc |-> NoExc]
TestEscaped(e) == [kind |-> "escaped", result |-> Passed, exc |-> e]
TestHung == [kind |-> "hung", result |-> Passed, exc |-> NoExc]

\* _run_single_test: every way it can end for a Test Case and a fragment
RunSingleTestOutcomes(idx, t, prog) ==
    LET v == is_code_safe(prog.code)
    IN  IF GateBranch(v.safe) = "returned"
        THEN {TestResult(Failed(BlockedMessage(idx, v.reason)))}
        ELSE UNION {
            CASE x.kind = "hung" -> {TestHung}
              [] x.kind = "raised" ->
                   IF x.exc.is_exception
                   THEN {TestResult(ExecFailure(idx, x.exc))}
                   ELSE {TestEscaped(x.exc)}
              [] x.kind = "returned" ->
                   { CASE o = "ok" -> TestResult(Passed)
                       [] o = "AssertionError" -> TestResult(Failed(FailedMessage(idx)))
                       [] o = "ValueError" -> TestEscaped(UnknownTypeError)
                     : o \in RunTestOutcomes(t) }
            : x \in ExecuteCodeOutcomes(prog) }

----------------------------------------------------------------------------
(* Spec: one call of grade_notebook on a configured NotebookGrader          *)

Init ==
    /\ problems \in Configs
    /\ nb = <<>>
    /\ pc = "start"
    /\ prob_idx = 0
    /\ current_code_cell_index = 0
    /\ results = <<>>
    /\ total_score = 0
    /\ max_score = 0
    /\ test_results = <<>>
    /\ test_idx = 0
    /\ passed = 0
    /\ failed_tests = <<>>
    /\ safety_violations = 0
    /\ timeout_violations = 0
    /\ prob_test_results = <<>>
    /\ returned = NotReturned
    /\ GateIdle /\ MockIdle /\ TestIdle /\ ValIdle /\ NsIdle /\ BatchIdle

problemVars == <<test_idx, passed, failed_tests, safety_violations,
                 timeout_violations, prob_test_results>>
loopVars == <<prob_idx, current_code_cell_index, results, total_score,
              max_score, test_results>>

\* a maximum that counts the Problems instead of adding their points
get_max_score_only_CountProblems(ps) == Len(ps)

\* max_score = sum(p.get("pts", 1) for p in self.config.tester["problem"])
get_max_score_only(ps) == Sum([i \in 1..Len(ps) |-> Pts(ps[i])])

\* grade_notebook(None): _get_max_score_only
GetMaxScoreOnly ==
    /\ pc = "start"
    /\ pc' = "done"
    /\ returned' = [kind |-> "max_only", results |-> "None",
                    total_score |-> "None",
                    max_score |-> get_max_score_only(problems),
                    test_results |-> "None"]
    /\ UNCHANGED <<problems, nb, loopVars, problemVars>>
    /\ UNCHANGED <<gateVars, mockVars, testVars, valVars, nsVars, batchVars>>

\* grade_notebook(nb): _validate_cell_count, then either the mismatch result
\* or the first lines of _grade_all_problems
GradeNotebookOf(n) ==
    /\ pc = "start"
    /\ nb' = n
    /\ IF CellCountMismatch(problems, n)
       THEN /\ pc' = "done"
            /\ returned' = [kind |-> "mismatch",
                            results |-> <<cell_mismatch_result(problems, n)>>]
            /\ UNCHANGED prob_idx
       ELSE /\ pc' = "problems"
            /\ prob_idx' = 1
            /\ UNCHANGED returned
    /\ UNCHANGED <<problems, current_code_cell_index, results, total_score,
                   max_score, test_results, problemVars>>
    /\ UNCHANGED <<gateVars, mockVars, testVars, valVars, nsVars>>

\* grade_notebook called with any notebook
GradeNotebook ==
    /\ \E n \in Notebooks : GradeNotebookOf(n)
    /\ UNCHANGED batchVars

\* _grade_all_problems, one iteration up to the test loop of
\* _grade_single_problem; the IndexError branch finishes the iteration
StartProblem ==
    /\ pc = "problems"
    /\ prob_idx <= Len(problems)
    /\ LET problem == problems[prob_idx]
           cell_index == current_code_cell_index + problem.next_code_cell
       IN  /\ current_code_cell_index' = cell_index
           /\ IF CodeCellPosition(nb, cell_index) = 0
              THEN /\ results' = Append(results,
                          create_problem_result(cell_index, 0, Len(problem.tests), 0,
                              Pts(problem), <<NotFoundMessage(cell_index)>>, 0, 0))
                   /\ total_score' = total_score + 0
                   /\ max_score' = max_score + Pts(problem)
                   /\ test_results' = Update(test_results, <<>>)
                   /\ prob_idx' = prob_idx + 1
                   /\ UNCHANGED <<pc, problemVars>>
              ELSE /\ pc' = "tests"
                   /\ test_idx' = 1
                   /\ passed' = 0
                   /\ failed_tests' = <<>>
                   /\ safety_violations' = 0
                   /\ timeout_violations' = 0
                   /\ prob_test_results' = <<>>
                   /\ UNCHANGED <<prob_idx, results, total_score, max_score,
                                  test_results>>
    /\ UNCHANGED <<problems, nb, returned>>
    /\ UNCHANGED <<gateVars, mockVars, testVars, valVars, nsVars, batchVars>>

\* one iteration of the test loop of _grade_single_problem, on the fragment
\* _prepare_code assembles from the target cell
RunSingleTest ==
    /\ pc = "tests"
    /\ test_idx <= Len(problems[prob_idx].tests)
    /\ LET problem == problems[prob_idx]
           t == problem.tests[test_idx]
           cell == nb[CodeCellPosition(nb, current_code_cell_index)]
           prog == ProgramOf(prepare_code(cell, t, problem))
       IN
       \E o \in RunSingleTestOutcomes(test_idx, t, prog) :
        CASE o.kind = "hung" ->
               /\ pc' = "hung"
               /\ UNCHANGED <<problemVars, returned>>
          [] o.kind = "escaped" ->
               /\ pc' = "escaped"
               /\ returned' = Raised(o.exc)
               /\ UNCHANGED problemVars
          [] o.kind = "result" ->
               /\ pc' = "tests"
               /\ UNCHANGED returned
               /\ test_idx' = test_idx + 1
               /\ passed' = IF o.result.passed THEN passed + 1 ELSE passed
               /\ failed_tests' =
                      IF o.result.passed THEN failed_tests
                      ELSE Append(failed_tests, o.result.failure_message)
               /\ safety_violations' =
                      IF ~o.result.passed /\ Mentions(o.result.failure_message, "blocked")
                      THEN safety_violations + 1 ELSE safety_violations
               /\ timeout_violations' =
                      IF /\ ~o.result.passed
                         /\ ~Mentions(o.result.failure_message, "blocked")
                         /\ Mentions(o.result.failure_message, "timeout")
                      THEN timeout_violations + 1 ELSE timeout_violations
               /\ prob_test_results' =
                      Update(prob_test_results,
                             (Key(prob_idx, test_idx) :>
                                 <<IF o.result.passed THEN 1 ELSE 0,
                                   o.result.failure_message>>))
    /\ UNCHANGED <<problems, nb, loopVars>>
    /\ UNCHANGED <<gateVars, mockVars, testVars, valVars, nsVars, batchVars>>

\* the end of _grade_single_problem and of the iteration of _grade_all_problems
FinishProblem ==
    /\ pc = "tests"
    /\ test_idx > Len(problems[prob_idx].tests)
    /\ LET problem == problems[prob_idx]
           score == ProblemScore(passed, Len(problem.tests), Pts(problem))
       IN  /\ results' = Append(results,
                  create_problem_result(current_code_cell_index, passed,
                      Len(problem.tests), score, Pts(problem), failed_tests,
                      safety_violations, timeout_violations))
           /\ total_score' = total_score + score
           /\ max_score' = max_score + Pts(problem)
           /\ test_results' = Update(test_results, prob_test_results)
    /\ prob_idx' = prob_idx + 1
    /\ pc' = "problems"
    /\ UNCHANGED <<problems, nb, current_code_cell_index, problemVars, returned>>
    /\ UNCHANGED <<gateVars, mockVars, testVars, valVars, nsVars, batchVars>>

\* return results, total_score, max_score, test_results
ReturnResults ==
    /\ pc = "problems"
    /\ prob_idx > Len(problems)
    /\ pc' = "done"
    /\ returned' = [kind |-> "graded", results |-> results,
                    total_score |-> total_score, max_score |-> max_score,
                    test_results |-> test_results]
    /\ UNCHANGED <<problems, nb, loopVars, problemVars>>
    /\ UNCHANGED <<gateVars, mockVars, testVars, valVars, nsVars, batchVars>>

Next ==
    \/ GetMaxScoreOnly
    \/ GradeNotebook
    \/ StartProblem
    \/ RunSingleTest
    \/ FinishProblem
    \/ ReturnResults

Spec == Init /\ [][Next]_vars

----------------------------------------------------------------------------
(* Properties of the Safety Gate and of the Mock I/O Layer *)

\* the fragment text holds `import X` or `from X import` for a denylisted
\* module X, or a denylisted call pattern, anywhere
Denylisted(code) ==
    \/ \E X \in Range(banned_imports) :
          \/ Contains(code, <<"import", " ", X>>)
          \/ Contains(code, <<"from", " ", X, " ", "import">>)
    \/ \E pat \in Range(banned_patterns) : Contains(code, pat)

\* C7: is_code_safe returns for every fragment, and its verdict is a
\* rejection (false with a non-empty reason) exactly when the fragment holds
\* a denylisted import in either form or a denylisted call pattern as a
\* substring; otherwise it is (true, empty reason).
C7_GateVerdict ==
    verdict # <<>> =>
        IF Denylisted(cell_code)
        THEN verdict[1].safe = FALSE /\ verdict[1].reason # <<>>
        ELSE verdict[1].safe = TRUE /\ verdict[1].reason = <<>>

\* a fragment with a from-import of a denylisted module was rejected
C7_Witness ==
    /\ verdict # <<>>
    /\ cell_code = <<"from", " ", "os", " ", "import">>
    /\ verdict[1] = [safe |-> FALSE,
                      reason |-> <<"Banned import detected: ", "os">>]

IsInputCall(c) == c.fn = "input"
IsPrintCall(c) == c.fn = "print"

\* C9: with a list overload of length n the k-th input request returns the
\* string form of the k-th item for k <= n and the empty string afterwards;
\* with a non-list overload every request returns the string form of the value.
C9_InputSequence ==
    LET ins == SelectSeq(calls, IsInputCall)
    IN  \A k \in 1..Len(ins) :
            ins[k].ret =
                IF input_overload.kind = "list"
                THEN IF k <= Len(input_overload.items)
                     THEN Str(input_overload.items[k])
                     ELSE <<>>
                ELSE Str(input_overload.value)

\* [10, 20] answered "10", "20" and then ""
C9_Witness ==
    LET ins == SelectSeq(calls, IsInputCall)
    IN  /\ input_overload = ListOverload(<<IntVal(10), IntVal(20)>>)
        /\ Len(ins) = 3
        /\ ins[1].ret = <<"10">> /\ ins[2].ret = <<"20">> /\ ins[3].ret = <<>>

\* C10: the i-th output call of the fragment is the i-th recorded message:
\* the arguments joined with the call's separator, followed by its
\* terminator, less exactly one trailing newline when there is one.
C10_OutputRecorded ==
    LET outs == SelectSeq(calls, IsPrintCall)
    IN  /\ Len(printed_outputs) = Len(outs)
        /\ \A i \in 1..Len(outs) :
              LET full == PrintText(outs[i].args, outs[i].sep, outs[i].end)
              IN  IF Len(full) > 0 /\ full[Len(full)] = "\n"
                  THEN printed_outputs[i] \o <<"\n">> = full
                  ELSE printed_outputs[i] = full

\* print("Hello", "World") recorded as "Hello World", after a message that
\* kept one of its two trailing newlines
C10_Witness ==
    /\ Len(printed_outputs) = 2
    /\ printed_outputs[1] = <<"line", "\n">>
    /\ printed_outputs[2] = <<"Hello", " ", "World">>
    /\ calls[2] = [fn |-> "print",
                    args |-> <<StrVal(<<"Hello">>), StrVal(<<"World">>)>>,
                    sep |-> DefaultSep, end |-> DefaultEnd]


----------------------------------------------------------------------------
(* Properties of one Test Case (TestSpec) *)

NonFinishing(prog) == prog.runs \in {"loop", "loop_catch"}

\* exec() is running a fragment that never returns and no alarm is left to
\* interrupt it
Hung == t_pc = "exec" /\ NonFinishing(program) /\ alarm = "off"

\* C6: under the signal-based executor a fragment that does not finish
\* within the timeout always ends with the outcome Timeout and the run goes
\* on to the next Test Case; the run never hangs.
C6_TimeoutNeverHangs ==
    /\ ~Hung
    /\ \A i \in DOMAIN t_results :
          NonFinishing(t_results[i].program) /\ is_code_safe(t_results[i].program.code).safe
             => t_results[i].result = Failed(TimeoutMessage(t_results[i].test_idx))

\* the stages of a Test Case come in the order gate, exec, validate, and
\* validate only after an exec that finished without timeout or exception
StagesInOrder(tr) ==
    /\ tr # <<>> => tr[1] = "gate"
    /\ \A i \in DOMAIN tr :
          /\ tr[i] = "gate" => i = 1
          /\ tr[i] = "exec" => i = 2
          /\ tr[i] = "validate" =>
                /\ i = Len(tr)
                /\ tr[2] = "exec"
                /\ "finished" \in Range(tr)
                /\ Range(tr) \cap {"raised", "timeout", "swallowed"} = {}

\* C8: the steps of a Test Case happen in the order Safety Gate, execution,
\* validation; a fragment the gate rejects is never executed and its outcome
\* is SafetyBlocked with the gate's reason in the diagnostic (for `import os`
\* the reason names os); the Validator runs only after an execution that
\* ended without timeout or exception.
C8_GateThenExecThenValidate ==
    /\ StagesInOrder(trace)
    /\ ~is_code_safe(program.code).safe =>
          /\ "exec" \notin Range(trace)
          /\ t_pc \in {"start", "returned"}
    /\ \A i \in DOMAIN t_results :
          LET r == t_results[i]
              v == is_code_safe(r.program.code)
          IN  /\ StagesInOrder(r.trace)
              /\ ~v.safe =>
                    /\ r.trace = <<"gate">>
                    /\ ~r.result.passed
                    /\ r.result.failure_message.kind = "blocked"
                    /\ r.result.failure_message.detail = v.reason
                    /\ Mentions(r.result.failure_message, "blocked")
              /\ Contains(r.program.code, <<"import", " ", "os">>) =>
                    "os" \in Range(r.result.failure_message.detail)
              /\ r.result.passed => r.trace[Len(r.trace)] = "validate"

C8_Witness ==
    /\ \E i \in DOMAIN t_results :
          /\ t_results[i].program.code = <<"import", " ", "os">>
          /\ t_results[i].result.failure_message.kind = "blocked"
          /\ "os" \in Range(t_results[i].result.failure_message.detail)
    /\ \E i \in DOMAIN t_results :
          t_results[i].trace = <<"gate", "exec", "finished", "validate">>

----------------------------------------------------------------------------
(* Properties of grade_notebook (Spec) *)

Graded == returned.kind = "graded"
Aborted == returned.kind = "mismatch"
\* grade_notebook was called with a notebook and is past the validation
Validated == pc # "start" /\ returned.kind # "max_only"

\* C1: grade_notebook aborts with the single mismatch result, and runs no
\* Test Case, whenever the sum of the configured cell advances differs from
\* the notebook's count of non-empty code cells; when the two agree it
\* proceeds to the per-Problem loop.
C1_AbortIffCountsDiffer ==
    Validated =>
       /\ Aborted <=> expected_code_cells(problems) # non_empty_code_cells(nb)
       /\ Aborted => Len(returned.results) = 1 /\ results = <<>> /\ test_results = <<>>

\* C2: the mismatch result carries expected = the sum of the configured cell
\* advances and actual = the notebook's number of non-empty code cells,
\* whatever empty code cells the notebook also holds.
C2_MismatchCounts ==
    Aborted =>
       /\ returned.results[1].expected_cells = expected_code_cells(problems)
       /\ returned.results[1].actual_cells = non_empty_code_cells(nb)

\* C3: whatever happens inside a Test Case becomes a failing outcome with a
\* diagnostic, the later Test Cases and Problems still run and are recorded,
\* and no exception escapes grade_notebook from a Test Case.
C3_FailuresContained ==
    /\ pc # "escaped"
    /\ pc = "tests" =>
          /\ DOMAIN prob_test_results = {Key(prob_idx, t) : t \in 1..(test_idx - 1)}
          /\ \A k \in DOMAIN prob_test_results :
                prob_test_results[k][1] = 0 => prob_test_results[k][2] # NoMessage

PassedCount(p, tr) ==
    Cardinality({k \in DOMAIN tr : k[1] = p /\ tr[k][1] = 1})

\* C4: every Problem's score is (tests passed / tests total) x point value,
\* 0 when it has no tests; the total score is the sum of the Problems'
\* scores and the max score the sum of their point values, so
\* 0 <= total score <= max score.  Scores are scaled by ScoreScale.
C4_Scores ==
    /\ \A i \in DOMAIN results :
          LET r == results[i]
          IN  /\ r.pts = Pts(problems[i])
              /\ r.total = Len(problems[i].tests)
              /\ r.passed = PassedCount(i, test_results)
              /\ r.total = 0 => r.score = 0
              /\ r.total # 0 => r.score * r.total = r.passed * r.pts * ScoreScale
    /\ total_score = Sum([i \in DOMAIN results |-> results[i].score])
    /\ max_score = Sum([i \in DOMAIN results |-> results[i].pts])
    /\ 0 <= total_score /\ total_score <= max_score * ScoreScale
    /\ Graded =>
          /\ returned.results = results /\ Len(results) = Len(problems)
          /\ returned.total_score = total_score
          /\ returned.max_score = max_score

C4_Witness ==
    /\ Graded
    /\ \E i \in DOMAIN results :
          0 < results[i].passed /\ results[i].passed < results[i].total
    /\ \E i \in DOMAIN results : results[i].total = 0
    /\ 0 < total_score /\ total_score < max_score * ScoreScale

\* C5: after a run that is not aborted by a cell-count mismatch the per-test
\* map holds exactly one entry prob<p>_test<t> for every Test Case t of every
\* configured Problem p, each a pass bit and a failure message.
C5_OneEntryPerTest ==
    Graded =>
       /\ DOMAIN returned.test_results =
             UNION {{Key(p, t) : t \in DOMAIN problems[p].tests} : p \in DOMAIN problems}
       /\ \A k \in DOMAIN returned.test_results :
             returned.test_results[k][1] \in {0, 1}

----------------------------------------------------------------------------
(* TestValidator, variable tests: core/test_runner.py                       *)

MaxNum == 2         \* the numbers of VariableSpec and OutputSpec are 0..MaxNum

FloatVal(n) == [t |-> "float", v |-> n]
\* float("nan"): a float that no comparison holds of
NaN == [t |-> "nan", v |-> 0]
\* getattr(test_ns, var, None) of a variable the fragment never set
NoneVal == [t |-> "NoneType", v |-> 0]

Numbers == {IntVal(n) : n \in 0..MaxNum} \cup {FloatVal(n) : n \in 0..MaxNum}
              \cup {NaN, BoolVal(TRUE)}
Values == Numbers \cup {StrVal(<<"a">>), NoneVal}
\* the values a configuration file gives
ExpectedValues == Values \ {NaN, NoneVal}

\* isinstance(x, (int, float, complex)); bool is a subclass of int
IsNumber(x) == x.t \in {"int", "float", "nan", "bool"}
IsNaN(x) == x.t = "nan"
NumOf(x) == IF x.t = "bool" THEN (IF x.v THEN 1 ELSE 0) ELSE x.v

\* abs(actual - expected)
AbsDiff(a, e) ==
    IF IsNaN(a) \/ IsNaN(e) THEN NaN
    ELSE FloatVal(IF NumOf(a) >= NumOf(e) THEN NumOf(a) - NumOf(e)
                  ELSE NumOf(e) - NumOf(a))

\* x > y on floats: False when either is nan
GreaterThan(x, y) == ~IsNaN(x) /\ ~IsNaN(y) /\ NumOf(x) > NumOf(y)

\* a != b
NotEqual(a, b) ==
    IF IsNumber(a) /\ IsNumber(b)
    THEN IsNaN(a) \/ IsNaN(b) \/ NumOf(a) # NumOf(b)
    ELSE a.t # b.t \/ a.v # b.v

\* _validate_exact_match
validate_exact_match(expected, actual) ==
    IF NotEqual(actual, expected) THEN "AssertionError" ELSE "ok"

\* _validate_with_tolerance that compares non-numeric values exactly
validate_with_tolerance_ExactFallback(expected, actual, tol) ==
    IF ~(IsNumber(actual) /\ IsNumber(expected))
    THEN validate_exact_match(expected, actual)
    ELSE IF GreaterThan(AbsDiff(actual, expected), IntVal(tol))
    THEN "AssertionError" ELSE "ok"

\* _validate_with_tolerance
validate_with_tolerance(expected, actual, tol) ==
    IF ~(IsNumber(actual) /\ IsNumber(expected)) THEN "AssertionError"
    ELSE IF GreaterThan(AbsDiff(actual, expected), IntVal(tol))
    THEN "AssertionError" ELSE "ok"

\* the body of the loop of validate_variable_test for one variable
VariableCheck(t, expected, actual) ==
    IF "tol" \in DOMAIN t
    THEN validate_with_tolerance(expected, actual, t.tol)
    ELSE validate_exact_match(expected, actual)

\* validate_variable_test: the first failing variable raises
validate_variable_test(t, ns) ==
    IF \A var \in DOMAIN t.expected : VariableCheck(t, t.expected[var], ns[var]) = "ok"
    THEN "ok" ELSE "AssertionError"

VarNames == {"x", "y"}
Expectations ==
    UNION {[names -> ExpectedValues] : names \in (SUBSET VarNames) \ {{}}}
VariableTests ==
    [type : {"variable"}, expected : Expectations]
        \cup [type : {"variable"}, expected : Expectations, tol : 0..MaxNum]

VariableInit ==
    /\ v_test \in VariableTests
    /\ v_actual \in UNION {[names -> Values] : names \in (SUBSET VarNames) \ {{}}}
    /\ DOMAIN v_actual = DOMAIN v_test.expected
    /\ v_outcome = <<>>
    /\ GateIdle /\ MockIdle /\ TestIdle /\ OrchIdle /\ NsIdle /\ BatchIdle

\* TestRunner.run_test for a variable test
ValidateVariableTest ==
    /\ v_test.type = "variable"
    /\ v_outcome = <<>>
    /\ v_outcome' = <<validate_variable_test(v_test, v_actual)>>
    /\ UNCHANGED <<v_test, v_actual>>
    /\ UNCHANGED <<gateVars, mockVars, testVars, orchVars, nsVars, batchVars>>

VariableNext == ValidateVariableTest

VariableSpec == VariableInit /\ [][VariableNext]_vars

HasTol == "tol" \in DOMAIN v_test
VariableValidated == v_outcome # <<>>
AllNumeric ==
    \A var \in DOMAIN v_test.expected :
        IsNumber(v_test.expected[var]) /\ IsNumber(v_actual[var])
\* |a - e| <= t over the reals; nan is at no distance from anything
WithinTol(a, e, tol) ==
    /\ ~IsNaN(a) /\ ~IsNaN(e)
    /\ NumOf(a) - NumOf(e) <= tol
    /\ NumOf(e) - NumOf(a) <= tol

\* C11: with a tolerance t and numeric expected e and actual a, a variable's
\* check passes if and only if |a - e| <= t: at |a - e| = t it passes, at any
\* larger deviation it fails.
C11_PassIffWithinTolerance ==
    (VariableValidated /\ HasTol /\ AllNumeric) =>
        (v_outcome[1] = "ok" <=>
            \A var \in DOMAIN v_test.expected :
                WithinTol(v_actual[var], v_test.expected[var], v_test.tol))

SomeNonNumeric ==
    \E var \in DOMAIN v_test.expected :
        ~(IsNumber(v_test.expected[var]) /\ IsNumber(v_actual[var]))
\* structural equality of two values of the same type
SameValue(a, e) == a.t = e.t /\ a.v = e.v

\* C12 as stated: with a tolerance, a variable whose expected or actual value
\* is not numeric is checked by exact equality: it passes when the two values
\* are equal and fails otherwise.
C12_NonNumericExactEquality ==
    (VariableValidated /\ HasTol /\ DOMAIN v_test.expected = {"x"} /\ SomeNonNumeric) =>
        (v_outcome[1] = "ok" <=> SameValue(v_actual["x"], v_test.expected["x"]))

\* C12 as the code has it: with a tolerance, a variable whose expected or
\* actual value is not numeric fails the check, equal or not ("non-numeric,
\* cannot use tol"); without a tolerance it is checked by exact equality.
C12_NonNumericFailsUnderTolerance ==
    /\ (VariableValidated /\ HasTol /\ SomeNonNumeric) => v_outcome[1] = "AssertionError"
    /\ (VariableValidated /\ ~HasTol /\ DOMAIN v_test.expected = {"x"} /\ SomeNonNumeric) =>
          (v_outcome[1] = "ok" <=> SameValue(v_actual["x"], v_test.expected["x"]))

C12_Witness ==
    /\ VariableValidated /\ HasTol
    /\ DOMAIN v_test.expected = {"x"}
    /\ v_test.expected["x"] = StrVal(<<"a">>)
    /\ v_actual["x"] = StrVal(<<"a">>)
    /\ v_outcome[1] = "AssertionError"

----------------------------------------------------------------------------
(* TestValidator.normalize_whitespace (NormalizeSpec)                       *)

MaxTextLen == 4     \* chunks in a text that NormalizeSpec enumerates

RECURSIVE CollapseFrom(_, _)
\* re.sub(r'\s+', ' ', text): every maximal run of whitespace becomes " "
CollapseFrom(text, i) ==
    IF i > Len(text) THEN <<>>
    ELSE (IF ~IsSpace(text[i]) THEN <<text[i]>>
          ELSE IF i > 1 /\ IsSpace(text[i - 1]) THEN <<>>
          ELSE <<" ">>) \o CollapseFrom(text, i + 1)

\* normalize_whitespace without the strip
normalize_whitespace_NoStrip(text) == CollapseFrom(text, 1)

\* re.sub(r'\s+', ' ', text.strip())
normalize_whitespace(text) == CollapseFrom(Strip(text), 1)

TextAlphabet == {"a", "B", " ", "\n"}

NormalizeInit ==
    /\ v_test = [type |-> "none"]
    /\ v_actual \in SeqsUpTo(TextAlphabet, MaxTextLen)
    /\ v_outcome = <<>>
    /\ GateIdle /\ MockIdle /\ TestIdle /\ OrchIdle /\ NsIdle /\ BatchIdle

\* normalize_whitespace(s), then normalize_whitespace of the result
Normalize ==
    /\ Len(v_outcome) < 2
    /\ v_outcome' = Append(v_outcome,
                           normalize_whitespace(IF v_outcome = <<>> THEN v_actual
                                                ELSE v_outcome[1]))
    /\ UNCHANGED <<v_test, v_actual>>
    /\ UNCHANGED <<gateVars, mockVars, testVars, orchVars, nsVars, batchVars>>

NormalizeNext == Normalize

NormalizeSpec == NormalizeInit /\ [][NormalizeNext]_vars

\* no leading, no trailing whitespace and no two whitespace characters in a row
IsNormalized(text) ==
    /\ text # <<>> => ~IsSpace(text[1]) /\ ~IsSpace(text[Len(text)])
    /\ \A i \in 1..(Len(text) - 1) : ~(IsSpace(text[i]) /\ IsSpace(text[i + 1]))
    /\ \A i \in DOMAIN text : IsSpace(text[i]) => text[i] = " "

\* C16: normalize_whitespace is idempotent, and its result has no leading or
\* trailing whitespace and no run of two or more whitespace characters.
C16_NormalizeIdempotent ==
    /\ Len(v_outcome) >= 1 => IsNormalized(v_outcome[1])
    /\ Len(v_outcome) = 2 => v_outcome[2] = v_outcome[1]

C16_Witness ==
    /\ Len(v_outcome) = 2
    /\ v_actual = <<" ", "a", "\n", " ">>
    /\ v_outcome[2] = <<"a">>

----------------------------------------------------------------------------
(* TestValidator, output tests: core/test_runner.py (OutputSpec)            *)

MaxPrints == 2      \* messages the fragment printed

\* the messages a fragment prints, and the texts a configuration expects
Messages ==
    { <<"Area:", " ", "1.0">>,
      <<"area:", " ", " ", "1">>,
      <<"Area:", " ", "nan">>,
      <<"Name:", " ", "Bob">>,
      <<"name:", " ", "bob">> }
    \cup {<<"Area:", " ", ToString(n)>> : n \in 0..MaxNum}

\* TestOutput that always takes the captured stream
TestOutput_StreamOnly(out) == out.cell_output

\* the comparison text of validate_output_test: the recorded messages joined
\* by newlines if there are any, else the captured stream
TestOutput(out) ==
    IF out.printed_outputs # <<>>
    THEN Join(out.printed_outputs, <<"\n">>)
    ELSE out.cell_output

\* s.lower() unless the comparison is case-sensitive
Fold(text, case_sensitive) == IF case_sensitive THEN text ELSE Lower(text)

\* _validate_string_output that folds the case of the output only
validate_string_output_FoldOutputOnly(expected, test_output, case_sensitive) ==
    IF Fold(normalize_whitespace(test_output), case_sensitive)
          # normalize_whitespace(expected)
    THEN "AssertionError" ELSE "ok"

\* _validate_string_output
validate_string_output(expected, test_output, case_sensitive) ==
    IF Fold(normalize_whitespace(test_output), case_sensitive)
          # Fold(normalize_whitespace(expected), case_sensitive)
    THEN "AssertionError" ELSE "ok"

\* zip(test["expected"], test_output_list), as the paired positions;
\* test_output is a str, so test_output_list is [test_output]
ZippedWithOutput(expected) == DOMAIN expected \cap {1}

\* _validate_list_output
validate_list_output(expected, test_output, case_sensitive) ==
    IF \A i \in ZippedWithOutput(expected) :
          Fold(normalize_whitespace(test_output), case_sensitive)
             = Fold(normalize_whitespace(expected[i]), case_sensitive)
    THEN "ok" ELSE "AssertionError"

\* a format string "pre{var}post" with one replacement field
Template(pre, var, post) == [pre |-> pre, var |-> var, post |-> post]

\* re.match(re.escape(pre) + "(?P<var>.+)" + re.escape(post) + r"\s*$", text,
\* re.DOTALL [| re.IGNORECASE]): <<the text of the group>>, or <<>> for no
\* match.  The literal parts have fixed lengths and the tail is whitespace
\* only, so the greedy group takes all the text it can.
MatchTemplate(fmt, text, case_sensitive) ==
    LET fits == {k \in 0..Len(text) :
                    /\ Len(fmt.pre) + 1 + Len(fmt.post) <= k
                    /\ Fold(SubSeq(text, 1, Len(fmt.pre)), case_sensitive)
                          = Fold(fmt.pre, case_sensitive)
                    /\ Fold(SubSeq(text, k - Len(fmt.post) + 1, k), case_sensitive)
                          = Fold(fmt.post, case_sensitive)
                    /\ \A i \in (k + 1)..Len(text) : IsSpace(text[i])}
    IN  IF fits = {} THEN <<>>
        ELSE LET k == CHOOSE m \in fits : \A n \in fits : n <= m
             IN  <<SubSeq(text, Len(fmt.pre) + 1, k - Len(fmt.post))>>

\* float(text): <<the number>>, or <<>> for ValueError
ParseFloat(text) ==
    LET s == Strip(text)
    IN  IF Len(s) # 1 THEN <<>>
        ELSE IF s[1] = "nan" THEN <<NaN>>
        ELSE IF \E n \in 0..MaxNum : s[1] \in {ToString(n), ToString(n) \o ".0"}
        THEN <<FloatVal(CHOOSE n \in 0..MaxNum :
                           s[1] \in {ToString(n), ToString(n) \o ".0"})>>
        ELSE <<>>

\* float(expected_val) for a configured value
ToFloat(x) ==
    IF x.t = "str" THEN ParseFloat(x.v)
    ELSE IF IsNumber(x) THEN <<FloatVal(NumOf(x))>>
    ELSE <<>>

\* _compare_extracted_values
compare_extracted_values(expected_val, actual_val, t) ==
    LET expected_num == ToFloat(expected_val)
        actual_num == ParseFloat(actual_val)
    IN  IF expected_num # <<>> /\ actual_num # <<>>
        THEN IF "tol" \in DOMAIN t
             THEN IF GreaterThan(AbsDiff(actual_num[1], expected_num[1]), IntVal(t.tol))
                  THEN "AssertionError" ELSE "ok"
             ELSE IF NotEqual(actual_num[1], expected_num[1])
                  THEN "AssertionError" ELSE "ok"
        ELSE \* except (ValueError, TypeError): str(actual_val) != str(expected_val)
             IF actual_val # Str(expected_val) THEN "AssertionError" ELSE "ok"

\* _validate_format_output
validate_format_output(t, test_output, case_sensitive) ==
    LET match == MatchTemplate(t.format, normalize_whitespace(test_output),
                               case_sensitive)
    IN  IF match = <<>> THEN "AssertionError"
        ELSE IF \A var \in DOMAIN t.expected :
                   /\ var = t.format.var
                   /\ compare_extracted_values(t.expected[var], match[1], t) = "ok"
        THEN "ok" ELSE "AssertionError"

\* test.get("case_sensitive", False)
CaseSensitive(t) == "case_sensitive" \in DOMAIN t /\ t.case_sensitive

\* validate_output_test
validate_output_test(t, out) ==
    IF "format" \in DOMAIN t
    THEN validate_format_output(t, TestOutput(out), CaseSensitive(t))
    ELSE IF t.mode = "list"
    THEN validate_list_output(t.expected, TestOutput(out), CaseSensitive(t))
    ELSE validate_string_output(t.expected, TestOutput(out), CaseSensitive(t))

ListMessages ==
    {<<"Area:", " ", "1.0">>, <<"Name:", " ", "Bob">>, <<"name:", " ", "bob">>}
Templates ==
    { Template(<<"Area:", " ">>, "a", <<>>),
      Template(<<"Name:", " ">>, "a", <<>>),
      Template(<<"Area:", " ", " ">>, "a", <<>>) }
FormatValues ==
    {IntVal(n) : n \in 0..MaxNum} \cup {FloatVal(1), StrVal(<<"Bob">>)}
FormatExpectations ==
    [{"a"} -> FormatValues] \cup [{"b"} -> {IntVal(1)}] \cup [{} -> FormatValues]

\* test.get("case_sensitive", False): absent, or set
WithCaseFlag(tests) ==
    tests \cup {[k \in DOMAIN t \cup {"case_sensitive"} |->
                    IF k = "case_sensitive" THEN TRUE ELSE t[k]] : t \in tests}

\* mode tells whether test["expected"] is a list (isinstance(..., list))
StringTests == [type : {"output"}, mode : {"string"}, expected : Messages]
ListTests ==
    [type : {"output"}, mode : {"list"}, expected : SeqsUpTo(ListMessages, MaxPrints)]
FormatTests ==
    [type : {"output"}, format : Templates, expected : FormatExpectations]
        \cup [type : {"output"}, format : Templates, expected : FormatExpectations,
              tol : {0, MaxNum}]
OutputTests == <<WithCaseFlag(StringTests), WithCaseFlag(ListTests),
                 WithCaseFlag(FormatTests)>>

\* what redirect_stdout captured of the printed messages
RECURSIVE StreamOf(_)
StreamOf(printed) ==
    IF printed = <<>> THEN <<>>
    ELSE printed[1] \o <<"\n">> \o StreamOf(Tail(printed))

\* the output side of a Test Case: the recorded messages and the captured
\* stream; a fragment that writes without print records no message
Outputs ==
    {[printed_outputs |-> p, cell_output |-> StreamOf(p)] :
        p \in SeqsUpTo(Messages, MaxPrints)}
    \cup {[printed_outputs |-> <<>>, cell_output |-> <<"Area:", " ", "1.0", "\n">>]}

OutputInit ==
    /\ \E mode \in DOMAIN OutputTests : v_test \in OutputTests[mode]
    /\ v_actual \in Outputs
    /\ v_outcome = <<>>
    /\ GateIdle /\ MockIdle /\ TestIdle /\ OrchIdle /\ NsIdle /\ BatchIdle

\* TestRunner.run_test for an output test
ValidateOutputTest ==
    /\ v_test.type = "output"
    /\ v_outcome = <<>>
    /\ v_outcome' = <<validate_output_test(v_test, v_actual)>>
    /\ UNCHANGED <<v_test, v_actual>>
    /\ UNCHANGED <<gateVars, mockVars, testVars, orchVars, nsVars, batchVars>>

OutputNext == ValidateOutputTest

OutputSpec == OutputInit /\ [][OutputNext]_vars

----------------------------------------------------------------------------
(* Properties of the output validators (OutputSpec) *)

OutputValidated == v_outcome # <<>>
IsFormatTest == "format" \in DOMAIN v_test
IsListTest == ~IsFormatTest /\ v_test.mode = "list"
IsStringTest == ~IsFormatTest /\ v_test.mode = "string"

\* the actual output segments: the recorded messages, or the captured stream
\* as one segment when nothing was recorded
ActualSegments(out) ==
    IF out.printed_outputs # <<>> THEN out.printed_outputs ELSE <<out.cell_output>>

\* two texts agree after whitespace normalization and optional case folding
TextsAgree(a, b, case_sensitive) ==
    Fold(normalize_whitespace(a), case_sensitive)
        = Fold(normalize_whitespace(b), case_sensitive)

\* C13: in list mode every expected[i] is compared with the i-th actual
\* output segment, normalized and optionally case-folded, and the test
\* passes only if every pair matches: a mismatch at any index, i > 0
\* included, fails the test.
C13_ListComparesEveryPair ==
    (OutputValidated /\ IsListTest /\ v_outcome[1] = "ok") =>
        \A i \in DOMAIN v_test.expected :
            /\ i \in DOMAIN ActualSegments(v_actual)
            /\ TextsAgree(v_test.expected[i], ActualSegments(v_actual)[i],
                          CaseSensitive(v_test))

\* the group the template captures from the normalized output
Captured == MatchTemplate(v_test.format, normalize_whitespace(TestOutput(v_actual)),
                          CaseSensitive(v_test))
\* a format test whose only expected value is a text that is not a number
ComparesCapturedText ==
    /\ IsFormatTest /\ Captured # <<>>
    /\ DOMAIN v_test.expected = {v_test.format.var}
    /\ v_test.expected[v_test.format.var].t = "str"
    /\ ParseFloat(v_test.expected[v_test.format.var].v) = <<>>

\* C14: in every text comparison of an output test (format, list and
\* single-string mode alike) both texts are whitespace-normalized before
\* they are compared, and letter case is ignored unless the Test Case sets
\* the case-sensitivity flag.
C14_NormalizedCaseFoldedComparisons ==
    /\ (OutputValidated /\ IsStringTest) =>
          (v_outcome[1] = "ok" <=>
              TextsAgree(v_test.expected, TestOutput(v_actual), CaseSensitive(v_test)))
    /\ (OutputValidated /\ IsListTest /\ v_test.expected # <<>>) =>
          (v_outcome[1] = "ok" <=>
              TextsAgree(v_test.expected[1], TestOutput(v_actual), CaseSensitive(v_test)))
    /\ (OutputValidated /\ ComparesCapturedText) =>
          (v_outcome[1] = "ok" <=>
              TextsAgree(v_test.expected[v_test.format.var].v, Captured[1],
                         CaseSensitive(v_test)))

\* what C15 asks of one expected value and the captured text
ExtractedValueAgrees(expected_val, captured, t) ==
    IF ToFloat(expected_val) # <<>> /\ ParseFloat(captured) # <<>>
    THEN IF "tol" \in DOMAIN t
         THEN WithinTol(ParseFloat(captured)[1], ToFloat(expected_val)[1], t.tol)
         ELSE /\ ~IsNaN(ParseFloat(captured)[1])
              /\ NumOf(ParseFloat(captured)[1]) = NumOf(ToFloat(expected_val)[1])
    ELSE captured = Str(expected_val)

\* C15: in format mode, once the template matches the normalized output,
\* each named expected value is compared with its captured group as numbers
\* when both parse as numbers (within the tolerance when one is set, else
\* exact numeric equality) and by string equality otherwise; "Area: {a}"
\* against "Area: 12.0" with expected a = 12 and a tolerance passes.
C15_FormatComparesExtractedValues ==
    (OutputValidated /\ IsFormatTest /\ Captured # <<>>
        /\ DOMAIN v_test.expected \subseteq {v_test.format.var}) =>
        (v_outcome[1] = "ok" <=>
            \A var \in DOMAIN v_test.expected :
                ExtractedValueAgrees(v_test.expected[var], Captured[1], v_test))

\* C17: the case-insensitive single-string comparison is symmetric: the
\* verdict with expected = s and actual = t equals the verdict with
\* expected = t and actual = s.
C17_StringComparisonSymmetric ==
    (OutputValidated /\ IsStringTest /\ ~CaseSensitive(v_test)) =>
        /\ v_outcome[1] = validate_string_output(v_test.expected, TestOutput(v_actual), FALSE)
        /\ v_outcome[1] = validate_string_output(TestOutput(v_actual), v_test.expected, FALSE)

C17_Witness ==
    /\ OutputValidated /\ IsStringTest /\ ~CaseSensitive(v_test)
    /\ v_test.expected = <<"Name:", " ", "Bob">>
    /\ v_actual.printed_outputs = << <<"name:", " ", "bob">> >>
    /\ v_outcome[1] = "ok"

----------------------------------------------------------------------------
(* _create_test_namespace (NamespaceSpec): one Test Case with a pre-seeded  *)
(* variable `data`, run once per graded notebook on the same configuration  *)

MaxDepth == 2       \* nesting depth of the configured list
MaxListLen == 3     \* items a list grows to
MaxSeeds == 2       \* namespaces created from the same Test Case

\* a list is an object of the heap; a value is an int or a reference to a list
ListRef(id) == [t |-> "list", v |-> id]

\* the heap of a configured value nested d deep: [[... [d] ..., 2], 1]
ConfiguredHeap(d) ==
    [k \in 1..d |-> IF k < d THEN <<ListRef(k + 1), IntVal(k)>> ELSE <<IntVal(k)>>]
\* test["variables"]["data"]: a scalar for d = 0, else the outermost list
ConfiguredValue(d) == IF d = 0 THEN IntVal(1) ELSE ListRef(1)

RECURSIVE DeepValue(_, _)
\* the value with every reference replaced by the list it refers to
DeepValue(h, x) ==
    IF x.t # "list" THEN <<x.t, x.v>>
    ELSE <<"list", [i \in DOMAIN h[x.v] |-> DeepValue(h, h[x.v][i])]>>

RECURSIVE ReachableLists(_, _)
\* the lists a fragment reaches from a value: data, data[0], data[0][0], ...
ReachableLists(h, x) ==
    IF x.t # "list" THEN {}
    ELSE {x.v} \cup UNION {ReachableLists(h, h[x.v][i]) : i \in DOMAIN h[x.v]}

\* val.copy(): a new list object with the same items
CopyList(h, x) == [heap |-> Append(h, h[x.v]), val |-> ListRef(Len(h) + 1)]

NamespaceInit ==
    /\ \E d \in 0..MaxDepth :
          /\ heap = ConfiguredHeap(d)
          /\ test_inputs = ConfiguredValue(d)
    /\ configured = DeepValue(heap, test_inputs)
    /\ test_ns = IntVal(0)
    /\ seeded = <<>>
    /\ ns_pc = "create"
    /\ ns_idx = 1
    /\ GateIdle /\ MockIdle /\ TestIdle /\ OrchIdle /\ ValIdle /\ BatchIdle

\* _create_test_namespace: setattr(test_ns, "data", val), val copied if a list
CreateTestNamespace ==
    /\ ns_pc = "create"
    /\ LET c == IF test_inputs.t = "list" THEN CopyList(heap, test_inputs)
                ELSE [heap |-> heap, val |-> test_inputs]
       IN  /\ heap' = c.heap
           /\ test_ns' = c.val
           /\ seeded' = Append(seeded, DeepValue(c.heap, c.val))
    /\ ns_pc' = "run"
    /\ UNCHANGED <<test_inputs, configured, ns_idx>>
    /\ UNCHANGED <<gateVars, mockVars, testVars, orchVars, valVars, batchVars>>

\* the fragment appends to a list it reaches from data: data.append(9),
\* data[0].append(9), ...
FragmentAppends ==
    /\ ns_pc = "run"
    /\ \E o \in ReachableLists(heap, test_ns) :
          /\ Len(heap[o]) < MaxListLen
          /\ heap' = [heap EXCEPT ![o] = Append(@, IntVal(9))]
    /\ UNCHANGED <<test_inputs, configured, test_ns, seeded, ns_pc, ns_idx>>
    /\ UNCHANGED <<gateVars, mockVars, testVars, orchVars, valVars, batchVars>>

\* the fragment rebinds the name: data = 9
FragmentRebinds ==
    /\ ns_pc = "run"
    /\ test_ns' = IntVal(9)
    /\ UNCHANGED <<heap, test_inputs, configured, seeded, ns_pc, ns_idx>>
    /\ UNCHANGED <<gateVars, mockVars, testVars, orchVars, valVars, batchVars>>

\* the Test Case ends; the next notebook runs it again
NextNamespace ==
    /\ ns_pc = "run"
    /\ ns_idx < MaxSeeds
    /\ ns_idx' = ns_idx + 1
    /\ ns_pc' = "create"
    /\ UNCHANGED <<heap, test_inputs, configured, test_ns, seeded>>
    /\ UNCHANGED <<gateVars, mockVars, testVars, orchVars, valVars, batchVars>>

NamespaceNext ==
    \/ CreateTestNamespace
    \/ FragmentAppends
    \/ FragmentRebinds
    \/ NextNamespace

NamespaceSpec == NamespaceInit /\ [][NamespaceNext]_vars

\* C18: pre-seeded list-valued variables are deep-copied into each Test
\* Case's namespace: no mutation a fragment performs on a pre-seeded list, at
\* any nesting depth, is visible in the configured test data or in the
\* namespace of any later Test Case.
C18_SeededListsIsolated ==
    /\ DeepValue(heap, test_inputs) = configured
    /\ \A i \in DOMAIN seeded : seeded[i] = configured

----------------------------------------------------------------------------
(* Properties of the classification of a fragment's exception (TestSpec) *)

\* the fragment raised and the executor's alarm did not fire in this Test Case
RaisedWithoutTimeout(tr) == "raised" \in Range(tr) /\ "timeout" \notin Range(tr)

\* C19: every exception that a fragment raises, other than the executor's own
\* timeout, is classified as a runtime error whose diagnostic holds the
\* exception's type name and its message verbatim; it is never reported as a
\* Timeout.
C19_RaisedIsRuntimeError ==
    /\ \A i \in DOMAIN t_results :
          LET r == t_results[i]
          IN  RaisedWithoutTimeout(r.trace) =>
                 /\ r.result = Failed(ErrorMessage(r.test_idx, r.program.raises))
                 /\ r.result.failure_message.kind # "timeout"
    /\ t_pc = "escaped" => ~RaisedWithoutTimeout(trace)

\* the same for the exceptions whose message is not the executor's sentinel
\* and that derive from Exception
C19_OtherExceptionsClassified ==
    /\ \A i \in DOMAIN t_results :
          LET r == t_results[i]
          IN  /\ RaisedWithoutTimeout(r.trace)
              /\ r.program.raises.msg # <<"__DEADLOOP__">>
              => r.result = Failed(ErrorMessage(r.test_idx, r.program.raises))
    /\ t_pc = "escaped" /\ RaisedWithoutTimeout(trace) => ~exc.is_exception

----------------------------------------------------------------------------
(* Properties of grade_notebook without a notebook (Spec) *)

MaxOnly == returned.kind = "max_only"

RECURSIVE ConfiguredMaximum(_)
\* the point values of the Problems added up, 1 for a Problem that sets none
ConfiguredMaximum(ps) ==
    IF ps = <<>> THEN 0
    ELSE (IF "pts" \in DOMAIN Head(ps) THEN Head(ps).pts ELSE 1)
         + ConfiguredMaximum(Tail(ps))

\* no step of the grading loop has been taken
NothingExecuted ==
    /\ nb = <<>>
    /\ prob_idx = 0 /\ test_idx = 0 /\ current_code_cell_index = 0
    /\ results = <<>> /\ test_results = <<>> /\ prob_test_results = <<>>
    /\ passed = 0 /\ failed_tests = <<>>

\* C20: with no notebook supplied, grade_notebook executes no fragment and
\* returns only the maximum achievable score, the sum of the Problems' point
\* values with 1 for a Problem that sets none; results, total score and the
\* per-test map are absent.
C20_MaxScoreOnly ==
    MaxOnly =>
       /\ pc = "done"
       /\ NothingExecuted
       /\ returned.max_score = ConfiguredMaximum(problems)
       /\ returned.results = "None"
       /\ returned.total_score = "None"
       /\ returned.test_results = "None"

\* grade_notebook(None) has returned for a configuration of two Problems, one
\* of them without a point value
C20_Witness ==
    /\ MaxOnly
    /\ Len(problems) = 2
    /\ \E i \in DOMAIN problems : "pts" \notin DOMAIN problems[i]
    /\ \E i \in DOMAIN problems : "pts" \in DOMAIN problems[i]
    /\ returned.max_score = ConfiguredMaximum(problems)

----------------------------------------------------------------------------
(* Properties of the standard-output redirect (TestSpec) *)

\* _execute_code is between entering and leaving its with block
InsideRedirect == t_pc \in {"exec", "except_timeout", "except_error", "finally", "run_cell_exit"}

\* C21: the standard-output redirect installed for one fragment run is fully
\* removed when that run ends, by success, by timeout or by an exception:
\* after _execute_code returns or raises, process standard output is the
\* stream it was before the call, and text written by a later run never
\* reaches an earlier run's capture buffer (while a run is inside the
\* redirect, standard output is that run's own buffer).
C21_RedirectRemoved ==
    /\ ~InsideRedirect => sys_stdout = <<"terminal">>
    /\ InsideRedirect => sys_stdout = <<StringIO(t_idx), "terminal">>

\* a second Test Case is inside its redirect after a first one ended by an
\* exception or a timeout, and a Test Case that timed out has returned
C21_Witness ==
    /\ t_idx = 2
    /\ InsideRedirect
    /\ Head(sys_stdout) = StringIO(2)
    /\ \E i \in DOMAIN t_results :
          t_results[i].result.failure_message.kind \in {"timeout", "error"}

----------------------------------------------------------------------------
(* Properties of the target cell of a Problem (Spec) *)

\* the sum of the cell advances of Problems 1..k
CellAdvance(ps, k) == Sum([i \in 1..k |-> ps[i].next_code_cell])

\* position p of the notebook holds its c-th non-empty code cell
IsNthNonEmptyCodeCell(n, p, c) ==
    /\ p \in DOMAIN n
    /\ IsNonEmptyCode(n[p])
    /\ Cardinality({j \in 1..p : IsNonEmptyCode(n[j])}) = c

\* the Problem Result that stands for a target cell that was not found
IsNotFoundResult(r, problem) ==
    /\ r.passed = 0
    /\ r.score = 0
    /\ r.pts = Pts(problem)
    /\ r.failed_tests = <<NotFoundMessage(r.cell_index)>>

\* C22: Problem k targets the non-empty code cell whose 1-based index among
\* non-empty code cells is the sum of the cell advances of Problems 1..k; when
\* the notebook has fewer non-empty code cells than that index, the Problem
\* gets passed = 0, score = 0 and max points = its point value, and grading
\* continues with the next Problem.
C22_TargetCell ==
    /\ pc \in {"tests", "hung", "escaped"} =>
          /\ current_code_cell_index = CellAdvance(problems, prob_idx)
          /\ IsNthNonEmptyCodeCell(nb, CodeCellPosition(nb, current_code_cell_index),
                                   current_code_cell_index)
    /\ ~Aborted =>
          \A k \in DOMAIN results :
             /\ results[k].cell_index = CellAdvance(problems, k)
             /\ non_empty_code_cells(nb) < results[k].cell_index =>
                   IsNotFoundResult(results[k], problems[k])
    /\ pc = "problems" => Len(results) = prob_idx - 1
    /\ Graded => Len(results) = Len(problems)

\* a graded notebook whose first Problem's target cell was missing and whose
\* second Problem was graded after it
C22_Witness ==
    /\ Graded
    /\ Len(results) = 2
    /\ results[1].cell_index >= 1
    /\ non_empty_code_cells(nb) < results[1].cell_index
    /\ IsNotFoundResult(results[1], problems[1])
    /\ results[2].cell_index = CellAdvance(problems, 2)

----------------------------------------------------------------------------
(* Properties of the counts of a Problem Result (Spec) *)

\* the Test Cases of Problem p that _run_single_test ended in the given way
\* ("blocked": the gate rejected the fragment, "timeout": the executor's
\* timeout marker, "error", "failed")
EndedAs(p, tr, kind) ==
    {k \in DOMAIN tr : k[1] = p /\ tr[k][2].kind = kind}

\* C23: in every Problem Result the safety-blocked count equals the number of
\* the Problem's Test Cases whose fragment the Safety Gate rejected, and the
\* timed-out count equals the number whose execution timed out; a Test Case
\* that ended in a runtime error or a failed validation is counted in
\* neither, whatever its diagnostic text or input description contains.
C23_ViolationCounts ==
    ~Aborted =>
       \A p \in DOMAIN results :
          /\ results[p].safety_violations =
                Cardinality(EndedAs(p, test_results, "blocked"))
          /\ results[p].timeout_violations =
                Cardinality(EndedAs(p, test_results, "timeout"))

----------------------------------------------------------------------------
(* Properties of the exit paths of run_cell (TestSpec) *)

\* control is inside run_cell, between arming the alarm and leaving finally
InRunCell == t_pc \in {"exec", "except_timeout", "except_error", "finally"}

\* run_cell has been called for the current Test Case and has handed control
\* back to _execute_code
RunCellLeft == "exec" \in Range(trace) /\ ~InRunCell

\* C24: on every exit path of the signal-based run_cell (normal completion,
\* timeout, exception raised by the fragment) the pending alarm has been
\* cancelled and the plotting cleanup has run at least once before control
\* returns to the caller, so no alarm armed for one Test Case can fire during
\* a later Test Case or during validation.
C24_AlarmOffAndCleanedUp ==
    /\ ~InRunCell => alarm = "off"
    /\ RunCellLeft => cleanups >= 1

\* the part of C24 about the alarm alone
C24_NoAlarmOutsideRunCell == ~InRunCell => alarm = "off"

----------------------------------------------------------------------------
(* Properties of the comparison text of an output test (MockSpec) *)

\* what validate_output_test compares when the fragment stops here
ComparedText == TestOutput([printed_outputs |-> printed_outputs, cell_output |-> stdout])

\* the message of a print call, as the fragment wrote it
MessageOf(c) == StripOneNewline(PrintText(c.args, c.sep, c.end))

\* C25: for an output-kind Test Case the text that is compared is the
\* recorded output messages joined in call order whenever the fragment made
\* at least one recorded output call, and the raw captured stream text
\* otherwise; in the first case the prompts echoed by input requests are not
\* part of the compared text.
C25_ComparedText ==
    LET outs == SelectSeq(calls, IsPrintCall)
    IN  /\ outs # <<>> =>
              /\ ComparedText = Join([i \in 1..Len(outs) |-> MessageOf(outs[i])], <<"\n">>)
              /\ \A p \in Prompts : ~Contains(ComparedText, p)
        /\ outs = <<>> => ComparedText = stdout

\* a fragment that asked for input with a prompt and printed: the prompt is
\* in the captured stream
C25_Witness ==
    /\ \E i \in DOMAIN calls : IsPrintCall(calls[i])
    /\ \E i \in DOMAIN calls : IsInputCall(calls[i]) /\ Contains(stdout, calls[i].prompt)
    /\ Len(printed_outputs) = 2
    /\ ComparedText # stdout

----------------------------------------------------------------------------
(* _prepare_code (PrepareSpec): the fragment assembled for one Test Case   *)

MaxLines == 3       \* lines of the target cell
MaxOffset == 2      \* the largest line_offset of a Problem

\* the lines a student's cell is made of: two statements, an input read, a
\* line of blanks and an empty line
SourceLines ==
    { <<"x", " ", "=", " ", "5">>,
      <<"x", " ", "=", " ", "input", "(", ")">>,
      <<"print", "(", "x", ")">>,
      <<" ">>,
      <<>> }
Sources == {Join(ls, <<"\n">>) : ls \in SeqsUpTo(SourceLines, MaxLines)}

\* prefix_code of a Problem or of a Test Case: one line, or two lines with an
\* input read
PrefixCodes ==
    { <<"y", " ", "=", " ", "1">>,
      <<"z", " ", "=", " ", "input", "(", ")", "\n", "w", " ", "=", " ", "2">> }

\* the Problems: with or without line_offset and prefix_code
PrepareProblems ==
    {[next_code_cell |-> 1]}
    \cup {[next_code_cell |-> 1, line_offset |-> n] : n \in 0..MaxOffset}
    \cup {[next_code_cell |-> 1, prefix_code |-> c] : c \in PrefixCodes}
    \cup {[next_code_cell |-> 1, line_offset |-> n, prefix_code |-> c] :
             n \in 1..MaxOffset, c \in PrefixCodes}

\* test["variables"]: no entry, an empty table, one variable
NoVariables == <<>>
OneVariable == [x |-> IntVal(1)]

\* the Test Cases: with or without prefix_code, variables and input_overload
PrepareTests ==
    {[type |-> "variable"], [type |-> "variable", input_overload |-> IntVal(10)]}
    \cup {[type |-> "variable", prefix_code |-> c] : c \in PrefixCodes}
    \cup {[type |-> "variable", variables |-> NoVariables]}
    \cup {[type |-> "variable", variables |-> OneVariable]}
    \cup {[type |-> "variable", variables |-> OneVariable, prefix_code |-> c] :
             c \in PrefixCodes}
    \cup {[type |-> "variable", variables |-> OneVariable,
           input_overload |-> IntVal(10)]}

PrepareInit ==
    /\ \E t \in PrepareTests, p \in PrepareProblems :
          v_test = [test |-> t, problem |-> p]
    /\ \E src \in Sources : v_actual = [cell_type |-> "code", source |-> src]
    /\ v_outcome = <<>>
    /\ GateIdle /\ MockIdle /\ TestIdle /\ OrchIdle /\ NsIdle /\ BatchIdle

\* code_to_run = self._prepare_code(cell, line_offset, test, problem)
PrepareCode ==
    /\ v_outcome = <<>>
    /\ v_outcome' = <<prepare_code(v_actual, v_test.test, v_test.problem)>>
    /\ UNCHANGED <<v_test, v_actual>>
    /\ UNCHANGED <<gateVars, mockVars, testVars, orchVars, nsVars, batchVars>>

PrepareNext == PrepareCode

PrepareSpec == PrepareInit /\ [][PrepareNext]_vars

\* ---- properties
IsNonBlank(line) == Strip(line) # <<>>
HasInputRead(line) == Contains(line, <<"input", "(">>)
KeepsLine(line) == ~HasInputRead(line)

\* the lines of the prefix code of a Problem or a Test Case
PrefixLines(x) == IF "prefix_code" \in DOMAIN x THEN SplitLines(x.prefix_code) ELSE <<>>

\* Problem prefix, Test prefix, the cell's non-blank lines from line_offset on
AssembledLines(cell, t, problem) ==
    LET offset == IF "line_offset" \in DOMAIN problem THEN problem.line_offset ELSE 0
        non_blank == SelectSeq(SplitLines(cell.source), IsNonBlank)
    IN  PrefixLines(problem) \o PrefixLines(t)
        \o SubSeq(non_blank, offset + 1, Len(non_blank))

\* the Test Case has at least one pre-seeded variable and no input overload
RemovesInputLines(t) ==
    /\ "variables" \in DOMAIN t /\ DOMAIN t.variables # {}
    /\ "input_overload" \notin DOMAIN t

----------------------------------------------------------------------------
(* GradingSession._grade_students (BatchSpec): the students of the         *)
(* gradebook graded one after the other by the same NotebookGrader          *)

MaxStudents == 2    \* students in the gradebook

\* configurations of two Problems that expect two code cells
BatchConfigs == {c \in Configs : Len(c) = 2 /\ expected_code_cells(c) = 2}

CodeCell(text) == [cell_type |-> "code", source |-> text]

\* the notebooks students hand in
BatchNotebooks ==
    { <<CodeCell(<<"x", " ", "=", " ", "5">>), CodeCell(<<"x", " ", "=", " ", "5">>)>>,
      <<CodeCell(<<"x", " ", "=", " ", "5">>), EmptyCodeCell>>,
      <<CodeCell(<<"x", " ", "=", " ", "5">>)>>,
      <<CodeCell(<<"x", " ", "=", " ", "1", "/", "0">>), CodeCell(<<"import", " ", "os">>)>>,
      <<CodeCell(<<"raise", " ", "SystemExit">>), CodeCell(<<"x", " ", "=", " ", "5">>)>>,
      <<CodeCell(<<"while", " ", "True", ":", "\n", " ", "try", ":", " ", "pass",
                   "\n", " ", "except", " ", "Exception", ":", " ", "pass">>),
        CodeCell(<<"x", " ", "=", " ", "5">>)>> }

\* <userid>.ipynb in the submissions directory: absent, not a notebook, or a
\* notebook
Submissions ==
    {[kind |-> "missing", nb |-> <<>>], [kind |-> "unreadable", nb |-> <<>>]}
    \cup {[kind |-> "notebook", nb |-> n] : n \in BatchNotebooks}

\* _generate_test_keys
test_keys(ps) == UNION {{Key(p, t) : t \in DOMAIN ps[p].tests} : p \in DOMAIN ps}

\* _record_student_grade: total_score if max_score else 0 if max_score else None
RecordedGrade(total, max) == IF max # 0 THEN IntVal(total) ELSE NoneVal

\* the locals of grade_notebook, as a new call finds them
OrchReset ==
    /\ nb' = <<>>
    /\ pc' = "start"
    /\ prob_idx' = 0
    /\ current_code_cell_index' = 0
    /\ results' = <<>>
    /\ total_score' = 0
    /\ max_score' = 0
    /\ test_results' = <<>>
    /\ test_idx' = 0
    /\ passed' = 0
    /\ failed_tests' = <<>>
    /\ safety_violations' = 0
    /\ timeout_violations' = 0
    /\ prob_test_results' = <<>>
    /\ returned' = NotReturned
    /\ UNCHANGED problems

BatchInit ==
    /\ problems \in BatchConfigs
    /\ submissions \in [1..MaxStudents -> Submissions]
    /\ b_pc = "loop"
    /\ b_idx = 1
    /\ userids_done = <<>>
    /\ user_grades = <<>>
    /\ unreadable_notebooks = <<>>
    /\ nb = <<>>
    /\ pc = "start"
    /\ prob_idx = 0
    /\ current_code_cell_index = 0
    /\ results = <<>>
    /\ total_score = 0
    /\ max_score = 0
    /\ test_results = <<>>
    /\ test_idx = 0
    /\ passed = 0
    /\ failed_tests = <<>>
    /\ safety_violations = 0
    /\ timeout_violations = 0
    /\ prob_test_results = <<>>
    /\ returned = NotReturned
    /\ GateIdle /\ MockIdle /\ TestIdle /\ ValIdle /\ NsIdle

\* results is None or test_results is None: unreadable_notebooks.append(userid)
\* and continue
SkipStudent ==
    /\ unreadable_notebooks' = Append(unreadable_notebooks, b_idx)
    /\ b_idx' = b_idx + 1
    /\ b_pc' = "loop"
    /\ UNCHANGED <<submissions, userids_done, user_grades>>

\* _grade_single_student for a student without a readable notebook: the
\* path does not exist, or nbformat.read raises
NoNotebook ==
    /\ b_pc = "loop"
    /\ b_idx <= Len(submissions)
    /\ submissions[b_idx].kind # "notebook"
    /\ SkipStudent
    /\ UNCHANGED orchVars
    /\ UNCHANGED <<gateVars, mockVars, testVars, valVars, nsVars>>

\* _grade_single_student: nbformat.read, then grade_notebook(nb) is entered
GradeSingleStudent ==
    /\ b_pc = "loop"
    /\ b_idx <= Len(submissions)
    /\ submissions[b_idx].kind = "notebook"
    /\ GradeNotebookOf(submissions[b_idx].nb)
    /\ b_pc' = "grading"
    /\ UNCHANGED <<b_idx, submissions, userids_done, user_grades, unreadable_notebooks>>

\* grade_notebook left by an exception: `except Exception` of
\* _grade_single_student turns an Exception into (None, None, None, None);
\* anything else leaves _grade_students
GradingRaised ==
    /\ b_pc = "grading"
    /\ returned.kind = "raised"
    /\ IF returned.exc.is_exception
       THEN SkipStudent /\ OrchReset
       ELSE /\ b_pc' = "crashed"
            /\ UNCHANGED <<b_idx, submissions, userids_done, user_grades,
                           unreadable_notebooks>>
            /\ UNCHANGED orchVars
    /\ UNCHANGED <<gateVars, mockVars, testVars, valVars, nsVars>>

\* grade_notebook returned the cell-count mismatch: results is a list and
\* test_results is None
GradingAborted ==
    /\ b_pc = "grading"
    /\ returned.kind = "mismatch"
    /\ SkipStudent
    /\ OrchReset
    /\ UNCHANGED <<gateVars, mockVars, testVars, valVars, nsVars>>

\* grade_notebook returned results: feedback, _record_student_grade,
\* _add_test_results_to_csv (test_results[key] for every key of test_keys:
\* KeyError for a missing one), userids_done.append
RecordStudent ==
    /\ b_pc = "grading"
    /\ returned.kind = "graded"
    /\ user_grades' = Update(user_grades,
                             (b_idx :> RecordedGrade(returned.total_score,
                                                     returned.max_score)))
    /\ IF test_keys(problems) \subseteq DOMAIN returned.test_results
       THEN /\ userids_done' = Append(userids_done, b_idx)
            /\ b_idx' = b_idx + 1
            /\ b_pc' = "loop"
            /\ OrchReset
       ELSE /\ b_pc' = "crashed"
            /\ UNCHANGED <<b_idx, userids_done>>
            /\ UNCHANGED orchVars
    /\ UNCHANGED <<submissions, unreadable_notebooks>>
    /\ UNCHANGED <<gateVars, mockVars, testVars, valVars, nsVars>>

\* the loop over userids is over: return passfail_rows, msg_rows, userids_done
FinishBatch ==
    /\ b_pc = "loop"
    /\ b_idx > Len(submissions)
    /\ b_pc' = "done"
    /\ UNCHANGED <<b_idx, submissions, userids_done, user_grades, unreadable_notebooks>>
    /\ UNCHANGED orchVars
    /\ UNCHANGED <<gateVars, mockVars, testVars, valVars, nsVars>>

BatchNext ==
    \/ NoNotebook
    \/ GradeSingleStudent
    \/ StartProblem
    \/ RunSingleTest
    \/ FinishProblem
    \/ ReturnResults
    \/ GradingRaised
    \/ GradingAborted
    \/ RecordStudent
    \/ FinishBatch

BatchSpec == BatchInit /\ [][BatchNext]_vars

\* ---- properties
\* the batch has stopped before the last student: an exception left
\* _grade_students, or a fragment never returns
BatchStopped == b_pc = "crashed" \/ (b_pc = "grading" /\ pc = "hung")

\* the notebook grade of student i was aborted: no file, no notebook, or a
\* cell-count mismatch
GradeAborted(i) ==
    \/ submissions[i].kind # "notebook"
    \/ CellCountMismatch(problems, submissions[i].nb)

\* C27: in batch grading, no outcome of one student's notebook (missing
\* file, unreadable notebook, cell-count mismatch, a Problem whose target cell
\* is not found, any failing Test Case) stops the batch: every later student
\* in the gradebook is still graded, and the student whose notebook grade was
\* aborted gets no recorded grade.
C27_BatchGoesOn ==
    /\ ~BatchStopped
    /\ b_pc = "done" =>
          \A i \in DOMAIN submissions :
             i \in Range(userids_done) \cup Range(unreadable_notebooks)
    /\ \A i \in DOMAIN submissions : GradeAborted(i) => i \notin DOMAIN user_grades

\* the part of C27 about aborted notebook grades alone
C27_AbortedGetNoGrade ==
    \A i \in DOMAIN submissions : GradeAborted(i) => i \notin DOMAIN user_grades

----------------------------------------------------------------------------
(* Properties of the alarm delivered inside run_cell (TestSpec) *)

\* timeout_handler has raised TimeoutException in this Test Case
TimeoutRaised(tr) == "timeout" \in Range(tr)

\* C28: in the signal-based run_cell, a timeout alarm delivered at any point
\* between arming the alarm and cancelling it makes run_cell return the
\* distinguished timeout marker; the timeout exception never escapes run_cell
\* as a raised exception (for instance when it fires during the cleanup of
\* the error path or just before the alarm is cancelled) and is therefore
\* never reported as a runtime error.
C28_TimeoutReturnsMarker ==
    /\ t_pc = "run_cell_exit" /\ TimeoutRaised(trace) =>
          /\ cell_result = "__DEADLOOP__"
          /\ exc = NoExc
    /\ \A i \in DOMAIN t_results :
          LET r == t_results[i]
          IN  /\ TimeoutRaised(r.trace) => r.result = Failed(TimeoutMessage(r.test_idx))
              /\ r.result.failure_message.err_type # TimeoutException.type

\* the same for an alarm delivered while exec() is running the fragment
C28_TimeoutDuringExec ==
    \A i \in DOMAIN t_results :
       LET r == t_results[i]
       IN  r.trace = <<"gate", "exec", "timeout">> =>
              r.result = Failed(TimeoutMessage(r.test_idx))

----------------------------------------------------------------------------
(* Properties of the counts of a Problem Result whose cell was found (Spec) *)

\* the target cell of the Problem behind result r was found
CellFound(r) == CodeCellPosition(nb, r.cell_index) # 0

\* C29: in every Problem Result of a Problem whose target cell was found,
\* tests passed + number of failure diagnostics = tests total,
\* 0 <= tests passed <= tests total, and safety-blocked count + timed-out
\* count <= number of failure diagnostics; the pass bit of a per-test map
\* entry is 1 exactly when its failure message is empty.
C29_CountsAddUp ==
    ~Aborted /\ ~MaxOnly =>
       /\ \A k \in DOMAIN results :
             LET r == results[k]
             IN  CellFound(r) =>
                    /\ r.passed + Len(r.failed_tests) = r.total
                    /\ 0 <= r.passed /\ r.passed <= r.total
                    /\ r.safety_violations + r.timeout_violations <= Len(r.failed_tests)
       /\ \A key \in DOMAIN test_results :
             test_results[key][1] = 1 <=> MessageText(test_results[key][2]) = <<>>

\* a graded Problem with two Test Cases, one passed and one timed out or
\* blocked
C29_Witness ==
    /\ Graded
    /\ \E k \in DOMAIN results :
          /\ CellFound(results[k])
          /\ results[k].total = 2
          /\ results[k].passed = 1
          /\ results[k].safety_violations + results[k].timeout_violations = 1
          /\ test_results[Key(k, 1)][1] # test_results[Key(k, 2)][1]

----------------------------------------------------------------------------
(* Properties relating a full grading run to the no-notebook call (Spec) *)

\* C30: for one configuration, the max score returned by a full grading run
\* of any notebook that passes cell-count validation equals the max score
\* returned by the no-notebook call, and the returned result list has exactly
\* one Problem Result per configured Problem, in configuration order, with
\* non-decreasing target cell indices.
C30_FullRunAgreesWithMaxOnly ==
    Graded =>
       /\ returned.max_score = get_max_score_only(problems)
       /\ Len(returned.results) = Len(problems)
       /\ \A k \in DOMAIN returned.results :
             /\ returned.results[k].pts = Pts(problems[k])
             /\ returned.results[k].total = Len(problems[k].tests)
             /\ returned.results[k].cell_index = CellAdvance(problems, k)
       /\ \A j, k \in DOMAIN returned.results :
             j <= k => returned.results[j].cell_index <= returned.results[k].cell_index

\* a graded notebook of two Problems with different point values, one of
\* them the default, on two different cells
C30_Witness ==
    /\ Graded
    /\ Len(returned.results) = 2
    /\ "pts" \notin DOMAIN problems[1] /\ "pts" \in DOMAIN problems[2]
    /\ returned.results[1].cell_index < returned.results[2].cell_index
    /\ returned.max_score = 3

====
